---- MODULE Spec2Model ----
(***************************************************************************)
(* Razer battery monitor: the USB worker (src/src/services/usb-worker.ts)  *)
(* as a state machine.  The worker is single-threaded JavaScript: code     *)
(* between two awaits runs atomically, a resolved promise resumes its      *)
(* awaiters in registration order on the microtask queue (runq), and       *)
(* timers, USB completions and host calls are macrotasks that run only     *)
(* when the microtask queue is empty.                                      *)
(*                                                                         *)
(* Encoding of JavaScript null: a device list with scan = 0, a timestamp   *)
(* of 0, a promise id of 0, a battery level of -1.  Battery levels are     *)
(* kept in tenths of a percent (50.2% is 502).                             *)
(***************************************************************************)
EXTENDS Integers, Sequences, FiniteSets, TLC

(***************************************************************************)
(* Device catalogue (usb-worker.ts lines 5-134)                            *)
(***************************************************************************)
RAZER_VENDOR_ID == 5426

RAZER_MICE ==
       (120 :> [name |-> "Razer Viper", transactionId |-> 63, hasWireless |-> FALSE])
    @@ (122 :> [name |-> "Razer Viper Ultimate (Wired)", transactionId |-> 63, hasWireless |-> TRUE])
    @@ (123 :> [name |-> "Razer Viper Ultimate (Wireless)", transactionId |-> 63, hasWireless |-> TRUE])
    @@ (138 :> [name |-> "Razer Viper Mini", transactionId |-> 31, hasWireless |-> FALSE])
    @@ (145 :> [name |-> "Razer Viper 8K", transactionId |-> 31, hasWireless |-> FALSE])
    @@ (158 :> [name |-> "Razer Viper Mini SE (Wired)", transactionId |-> 31, hasWireless |-> TRUE])
    @@ (159 :> [name |-> "Razer Viper Mini SE (Wireless)", transactionId |-> 31, hasWireless |-> TRUE])
    @@ (165 :> [name |-> "Razer Viper V2 Pro (Wired)", transactionId |-> 31, hasWireless |-> TRUE])
    @@ (166 :> [name |-> "Razer Viper V2 Pro (Wireless)", transactionId |-> 31, hasWireless |-> TRUE])
    @@ (184 :> [name |-> "Razer Viper V3 HyperSpeed", transactionId |-> 31, hasWireless |-> TRUE])
    @@ (192 :> [name |-> "Razer Viper V3 Pro (Wired)", transactionId |-> 31, hasWireless |-> TRUE])
    @@ (193 :> [name |-> "Razer Viper V3 Pro (Wireless)", transactionId |-> 31, hasWireless |-> TRUE])
    @@ (124 :> [name |-> "Razer DeathAdder V2 Pro (Wired)", transactionId |-> 63, hasWireless |-> TRUE])
    @@ (125 :> [name |-> "Razer DeathAdder V2 Pro (Wireless)", transactionId |-> 63, hasWireless |-> TRUE])
    @@ (132 :> [name |-> "Razer DeathAdder V2", transactionId |-> 31, hasWireless |-> FALSE])
    @@ (140 :> [name |-> "Razer DeathAdder V2 Mini", transactionId |-> 31, hasWireless |-> FALSE])
    @@ (152 :> [name |-> "Razer DeathAdder Essential (2021)", transactionId |-> 31, hasWireless |-> FALSE])
    @@ (156 :> [name |-> "Razer DeathAdder V2 X HyperSpeed", transactionId |-> 31, hasWireless |-> TRUE])
    @@ (161 :> [name |-> "Razer DeathAdder V2 Lite", transactionId |-> 31, hasWireless |-> FALSE])
    @@ (178 :> [name |-> "Razer DeathAdder V3", transactionId |-> 31, hasWireless |-> FALSE])
    @@ (182 :> [name |-> "Razer DeathAdder V3 Pro (Wired)", transactionId |-> 31, hasWireless |-> TRUE])
    @@ (183 :> [name |-> "Razer DeathAdder V3 Pro (Wireless)", transactionId |-> 31, hasWireless |-> TRUE])
    @@ (194 :> [name |-> "Razer DeathAdder V3 Pro (Wired Alt)", transactionId |-> 31, hasWireless |-> TRUE])
    @@ (195 :> [name |-> "Razer DeathAdder V3 Pro (Wireless Alt)", transactionId |-> 31, hasWireless |-> TRUE])
    @@ (196 :> [name |-> "Razer DeathAdder V3 HyperSpeed (Wired)", transactionId |-> 31, hasWireless |-> TRUE])
    @@ (197 :> [name |-> "Razer DeathAdder V3 HyperSpeed (Wireless)", transactionId |-> 31, hasWireless |-> TRUE])
    @@ (100 :> [name |-> "Razer Basilisk", transactionId |-> 31, hasWireless |-> FALSE])
    @@ (131 :> [name |-> "Razer Basilisk X HyperSpeed", transactionId |-> 31, hasWireless |-> TRUE])
    @@ (133 :> [name |-> "Razer Basilisk V2", transactionId |-> 31, hasWireless |-> FALSE])
    @@ (134 :> [name |-> "Razer Basilisk Ultimate (Wired)", transactionId |-> 31, hasWireless |-> TRUE])
    @@ (136 :> [name |-> "Razer Basilisk Ultimate (Receiver)", transactionId |-> 31, hasWireless |-> TRUE])
    @@ (153 :> [name |-> "Razer Basilisk V3", transactionId |-> 31, hasWireless |-> FALSE])
    @@ (170 :> [name |-> "Razer Basilisk V3 Pro (Wired)", transactionId |-> 31, hasWireless |-> TRUE])
    @@ (171 :> [name |-> "Razer Basilisk V3 Pro (Wireless)", transactionId |-> 31, hasWireless |-> TRUE])
    @@ (185 :> [name |-> "Razer Basilisk V3 X HyperSpeed", transactionId |-> 31, hasWireless |-> TRUE])
    @@ (203 :> [name |-> "Razer Basilisk V3 35K", transactionId |-> 31, hasWireless |-> FALSE])
    @@ (204 :> [name |-> "Razer Basilisk V3 Pro 35K (Wired)", transactionId |-> 31, hasWireless |-> TRUE])
    @@ (205 :> [name |-> "Razer Basilisk V3 Pro 35K (Wireless)", transactionId |-> 31, hasWireless |-> TRUE])
    @@ (143 :> [name |-> "Razer Naga Pro (Wired)", transactionId |-> 31, hasWireless |-> TRUE])
    @@ (144 :> [name |-> "Razer Naga Pro (Wireless)", transactionId |-> 31, hasWireless |-> TRUE])
    @@ (150 :> [name |-> "Razer Naga X", transactionId |-> 31, hasWireless |-> FALSE])
    @@ (167 :> [name |-> "Razer Naga V2 Pro (Wired)", transactionId |-> 31, hasWireless |-> TRUE])
    @@ (168 :> [name |-> "Razer Naga V2 Pro (Wireless)", transactionId |-> 31, hasWireless |-> TRUE])
    @@ (180 :> [name |-> "Razer Naga V2 HyperSpeed (Receiver)", transactionId |-> 31, hasWireless |-> TRUE])
    @@ (163 :> [name |-> "Razer Cobra", transactionId |-> 31, hasWireless |-> FALSE])
    @@ (175 :> [name |-> "Razer Cobra Pro (Wired)", transactionId |-> 31, hasWireless |-> TRUE])
    @@ (176 :> [name |-> "Razer Cobra Pro (Wireless)", transactionId |-> 31, hasWireless |-> TRUE])
    @@ (148 :> [name |-> "Razer Orochi V2 (Receiver)", transactionId |-> 31, hasWireless |-> TRUE])
    @@ (149 :> [name |-> "Razer Orochi V2 (Bluetooth)", transactionId |-> 31, hasWireless |-> TRUE])
    @@ (119 :> [name |-> "Razer Pro Click (Receiver)", transactionId |-> 31, hasWireless |-> TRUE])
    @@ (128 :> [name |-> "Razer Pro Click (Wired)", transactionId |-> 31, hasWireless |-> TRUE])
    @@ (154 :> [name |-> "Razer Pro Click Mini (Receiver)", transactionId |-> 31, hasWireless |-> TRUE])
    @@ (164 :> [name |-> "Razer Mouse Dock Pro", transactionId |-> 31, hasWireless |-> FALSE])
    @@ (179 :> [name |-> "Razer HyperPolling Wireless Dongle", transactionId |-> 31, hasWireless |-> TRUE])

RAZER_KEYBOARDS ==
       (590 :> [name |-> "Razer BlackWidow V3", transactionId |-> 31, hasWireless |-> FALSE])
    @@ (602 :> [name |-> "Razer BlackWidow V3 Pro (Wired)", transactionId |-> 31, hasWireless |-> TRUE])
    @@ (604 :> [name |-> "Razer BlackWidow V3 Pro (Wireless)", transactionId |-> 159, hasWireless |-> TRUE])
    @@ (600 :> [name |-> "Razer BlackWidow V3 Mini", transactionId |-> 31, hasWireless |-> FALSE])
    @@ (625 :> [name |-> "Razer BlackWidow V3 Mini (Wireless)", transactionId |-> 159, hasWireless |-> TRUE])
    @@ (2596 :> [name |-> "Razer BlackWidow V3 TK", transactionId |-> 31, hasWireless |-> FALSE])
    @@ (647 :> [name |-> "Razer BlackWidow V4", transactionId |-> 31, hasWireless |-> FALSE])
    @@ (653 :> [name |-> "Razer BlackWidow V4 Pro", transactionId |-> 31, hasWireless |-> FALSE])
    @@ (659 :> [name |-> "Razer BlackWidow V4 X", transactionId |-> 31, hasWireless |-> FALSE])
    @@ (677 :> [name |-> "Razer BlackWidow V4 75%", transactionId |-> 31, hasWireless |-> FALSE])
    @@ (656 :> [name |-> "Razer DeathStalker V2 Pro (Wireless)", transactionId |-> 159, hasWireless |-> TRUE])
    @@ (658 :> [name |-> "Razer DeathStalker V2 Pro (Wired)", transactionId |-> 31, hasWireless |-> TRUE])
    @@ (661 :> [name |-> "Razer DeathStalker V2", transactionId |-> 31, hasWireless |-> FALSE])
    @@ (662 :> [name |-> "Razer DeathStalker V2 Pro TKL (Wireless)", transactionId |-> 159, hasWireless |-> TRUE])
    @@ (664 :> [name |-> "Razer DeathStalker V2 Pro TKL (Wired)", transactionId |-> 31, hasWireless |-> TRUE])
    @@ (550 :> [name |-> "Razer Huntsman Elite", transactionId |-> 31, hasWireless |-> FALSE])
    @@ (551 :> [name |-> "Razer Huntsman", transactionId |-> 31, hasWireless |-> FALSE])
    @@ (579 :> [name |-> "Razer Huntsman Tournament Edition", transactionId |-> 31, hasWireless |-> FALSE])
    @@ (599 :> [name |-> "Razer Huntsman Mini", transactionId |-> 31, hasWireless |-> FALSE])
    @@ (614 :> [name |-> "Razer Huntsman V2 Analog", transactionId |-> 31, hasWireless |-> FALSE])
    @@ (619 :> [name |-> "Razer Huntsman V2 Tenkeyless", transactionId |-> 31, hasWireless |-> FALSE])
    @@ (620 :> [name |-> "Razer Huntsman V2", transactionId |-> 31, hasWireless |-> FALSE])
    @@ (642 :> [name |-> "Razer Huntsman Mini Analog", transactionId |-> 31, hasWireless |-> FALSE])
    @@ (678 :> [name |-> "Razer Huntsman V3 Pro", transactionId |-> 31, hasWireless |-> FALSE])
    @@ (679 :> [name |-> "Razer Huntsman V3 Pro TKL", transactionId |-> 31, hasWireless |-> FALSE])
    @@ (542 :> [name |-> "Razer Ornata Chroma", transactionId |-> 31, hasWireless |-> FALSE])
    @@ (605 :> [name |-> "Razer Ornata V2", transactionId |-> 31, hasWireless |-> FALSE])
    @@ (673 :> [name |-> "Razer Ornata V3", transactionId |-> 31, hasWireless |-> FALSE])
    @@ (675 :> [name |-> "Razer Ornata V3 Tenkeyless", transactionId |-> 31, hasWireless |-> FALSE])
    @@ (660 :> [name |-> "Razer Ornata V3 X", transactionId |-> 31, hasWireless |-> FALSE])

\* { ...RAZER_MICE, ...RAZER_KEYBOARDS }: the later spread wins on a shared key
RAZER_PRODUCTS == RAZER_KEYBOARDS @@ RAZER_MICE

WIRELESS_DEVICES == {id \in DOMAIN RAZER_PRODUCTS : RAZER_PRODUCTS[id].hasWireless}

isKeyboardDevice(productId) == productId \in DOMAIN RAZER_KEYBOARDS

(***************************************************************************)
(* Bounds of the model                                                     *)
(***************************************************************************)
\* host calls made one after the other (specification Spec)
MaxCalls == 2
\* host calls that overlap at getAllRazerDevices (specification SpecCache)
MaxCallers == 3
\* largest value of the clock Date.now()
MaxClock == 2
\* calls of getMouseBatteryInfo / getKeyboardBatteryInfo (specification SpecService)
MaxServiceCalls == 2

\* host calls made one after the other (specification SpecProtocol)
MaxProtocolCalls == 1

\* host calls of the specification with fairness (SpecLive)
MaxLiveCalls == 1

\* sendMessage calls of the persistent-worker client (specification SpecClient)
MaxRequests == 3
MaxWorkers == 3
MaxLifeRequests == 2
MaxBatCalls == 2
MaxBatClock == 15000
ClockStep == 5000
MaxListCalls == 3
MaxListClock == 20000
MaxUsbCalls == 3
UsbClockStep == 150000
MaxUsbClock == 600000
MaxButtons == 2
MaxAppear == 4

\* byte 9 of the replies of specification SpecProtocol
ProtocolBytes == {0, 1, 128, 255}

\* the largest value of a response byte
MaxByte == 255

\* byteLength of the replies handed to the decoder: short, shortest valid, full
ReplyLengths == {9, 10, 90}

\* byte 0 of the replies handed to the decoder
FormatBytes == {0, 1, 2, 4, 5, 255}

\* the wireless keyboards of the catalogue
WirelessKeyboards == {id \in DOMAIN RAZER_KEYBOARDS : RAZER_KEYBOARDS[id].hasWireless}

\* battery levels a worker reply can carry, in tenths of a percent (-1: null)
ReplyLevels == {-1, 0, 373, 1000}

Tasks == 1..(IF MaxCallers > 2 THEN MaxCallers ELSE 2)

\* the two overlapping refreshes of specification SpecOverlap
Pair == {1, 2}

\* What the USB bus can hold when a scan reads it: <<vendorId, productId>> in
\* bus order.  0x7A/0x7B are the Viper Ultimate pair, 0x7D a second wireless
\* mouse, 0x25C a wireless keyboard, 0x78 a wired-only mouse, 0xFFF an
\* uncatalogued Razer id, 0x46D a foreign vendor.
BusUniverse ==
    { <<>>,
      << <<RAZER_VENDOR_ID, 122>> >>,
      << <<RAZER_VENDOR_ID, 123>> >>,
      << <<RAZER_VENDOR_ID, 125>>, <<RAZER_VENDOR_ID, 123>> >>,
      << <<1133, 123>>, <<RAZER_VENDOR_ID, 604>>, <<RAZER_VENDOR_ID, 4095>>,
         <<RAZER_VENDOR_ID, 125>>, <<RAZER_VENDOR_ID, 123>> >>,
      << <<RAZER_VENDOR_ID, 120>>, <<RAZER_VENDOR_ID, 123>> >> }

\* product ids a host asks for by exact id
TargetIds == {122, 123, 120}

(***************************************************************************)
(* USB responses and the protocol codec                                    *)
(***************************************************************************)
\* a response: its byteLength and its first 16 bytes (bytes[k+1] is byte k)
Resp(len, b0, b9) ==
    [byteLength |-> len,
     bytes |-> [k \in 1..(IF len < 16 THEN len ELSE 16) |->
                   IF k = 1 THEN b0 ELSE IF k = 10 THEN b9 ELSE 0]]

\* the responses a device gives in the protocol model
Responses ==
    { Resp(90, 2, 128), Resp(90, 2, 1), Resp(90, 1, 0), Resp(90, 4, 77),
      Resp(90, 5, 80), Resp(8, 2, 0) }

NoResp == Resp(0, 0, 0)

\* how a USB operation ends: "ok", or an error whose message names
\* LIBUSB_ERROR_NO_DEVICE / LIBUSB_ERROR_NOT_FOUND / open error ("usb"), or
\* any other error ("other")
ErrorKinds == {"usb", "other"}

ScaleBattery_truncated(raw) == (raw * 1000) \div 255

\* parseFloat((raw / 255 * 100).toFixed(1)), in tenths of a percent
ScaleBattery(raw) == (raw * 2000 + 255) \div 510

NoResult == [kind |-> "null", batteryLevel |-> -1, isCharging |-> FALSE, productId |-> 0]

BatteryResult(level, charging, pid) ==
    [kind |-> "result", batteryLevel |-> level, isCharging |-> charging, productId |-> pid]

Thrown(e) == [kind |-> e, batteryLevel |-> -1, isCharging |-> FALSE, productId |-> 0]

\* Viper Ultimate wired mode: first byte of 8..15 that gives a level > 0
RECURSIVE ViperScan(_, _, _)
ViperScan(resp, pos, pid) ==
    IF pos >= (IF Len(resp.bytes) < 16 THEN Len(resp.bytes) ELSE 16) THEN NoResult
    ELSE LET value == resp.bytes[pos + 1]
             batteryLevel == IF value <= 100 THEN value * 10
                             ELSE IF value <= 255 THEN ScaleBattery(value) ELSE 0
         IN IF value > 0 /\ batteryLevel > 0
            THEN BatteryResult(batteryLevel, TRUE, pid)
            ELSE ViperScan(resp, pos + 1, pid)

KeyboardDecode_levelWhileCharging(resp, pid) ==
    IF resp.byteLength >= 10
    THEN BatteryResult(ScaleBattery(resp.bytes[10]), resp.bytes[1] = 4, pid)
    ELSE NoResult

\* getBatteryFromKeyboard's decoding of a reply
KeyboardDecode(resp, pid) ==
    IF resp.byteLength >= 10
    THEN IF resp.bytes[1] = 4
         THEN BatteryResult(-1, TRUE, pid)
         ELSE BatteryResult(ScaleBattery(resp.bytes[10]), FALSE, pid)
    ELSE NoResult

\* rawBattery / 255 * 100 of a mouse reply with status 0x02, as returned by
\* parseFloat(batteryLevel.toFixed(1)), in tenths of a percent
MouseBatteryLevel(resp) == ScaleBattery(resp.bytes[10])

\* bit k of a byte
Bit(a, k) == (a \div (2 ^ k)) % 2

\* a ^ b on bytes
BitXor(a, b) ==
    LET x(k) == ((Bit(a, k) + Bit(b, k)) % 2) * (2 ^ k)
    IN x(0) + x(1) + x(2) + x(3) + x(4) + x(5) + x(6) + x(7)

\* crc = crc ^ msg[i] for i = from .. Len(msg) - 1 (msg[k + 1] is byte k)
RECURSIVE XorFrom(_, _)
XorFrom(msg, from) ==
    IF from >= Len(msg) THEN 0
    ELSE BitXor(msg[from + 1], XorFrom(msg, from + 1))

createRazerRequest_crcFromByte0(productId, command) ==
    LET productInfo == RAZER_PRODUCTS[productId]
        msg == <<0, productInfo.transactionId, 0, 0, 0, 2, 7, command>>
        crc == XorFrom(msg, 0)
    IN [k \in 1..90 |-> IF k <= 8 THEN msg[k] ELSE IF k = 89 THEN crc ELSE 0]

\* the 90-byte request of a device (by product id) and a command:
\* fullMsg[k + 1] is byte k
createRazerRequest(productId, command) ==
    LET productInfo == RAZER_PRODUCTS[productId]
        msg == <<0, productInfo.transactionId, 0, 0, 0, 2, 7, command>>
        crc == XorFrom(msg, 2)
    IN [k \in 1..90 |-> IF k <= 8 THEN msg[k] ELSE IF k = 89 THEN crc ELSE 0]

\* undefined, the value of a lookup of an id that is not a key
NoProduct == [name |-> "", transactionId |-> -1, hasWireless |-> FALSE]

ProductLookup_miceOnly(productId) ==
    IF productId \in DOMAIN RAZER_MICE
    THEN [found |-> TRUE, info |-> RAZER_MICE[productId]]
    ELSE [found |-> FALSE, info |-> NoProduct]

\* RAZER_PRODUCTS[productId]
ProductLookup(productId) ==
    IF productId \in DOMAIN RAZER_PRODUCTS
    THEN [found |-> TRUE, info |-> RAZER_PRODUCTS[productId]]
    ELSE [found |-> FALSE, info |-> NoProduct]

(***************************************************************************)
(* State                                                                   *)
(***************************************************************************)
VARIABLES
    cachedDevices,            \* [scan, devs]; scan = 0 is null
    deviceCacheTimestamp,     \* Date.now() at population; 0 is null
    deviceEnumerationPromise, \* id of the scan the token points to; 0 is null
    now,                      \* the clock
    scanWaiters,              \* scans in flight -> tasks awaiting them, in order
    scanRes,                  \* finished scans still referred to -> their list
    scanFailed,               \* history: the scans that hit an error, while their
                              \* list is awaited or cached
    task,                     \* per host call: position and locals
    runq,                     \* microtask queue
    calls,                    \* host calls issued so far
    epochScans,               \* history: scans started since the last invalidate
    epochFirst,               \* history: the first of them (0: none)
    invPending,               \* history: invalidated, no getAllRazerDevices since
    ev,                       \* history: what the last step did
    svc,                      \* the child-process service and the key's title
    codec,                    \* a response handed to the decoder, and its result
    ipc,                      \* the client of the persistent worker
    bat,                      \* the service's battery cache and its calls
    lst,                      \* the caching service variant's device list
    usb,                      \* the spawn-per-request variant's USB access state
    act,                      \* a battery action and its interval timers
    clock                     \* Date.now() of the plugin process

workerVars == <<cachedDevices, deviceCacheTimestamp, deviceEnumerationPromise, now,
                scanWaiters, scanRes, scanFailed, task, runq, calls,
                epochScans, epochFirst, invPending, ev>>

vars == <<workerVars, svc, codec, ipc, bat, lst, usb, act, clock>>

NoList == [scan |-> 0, devs |-> <<>>]
NoDev == [scan |-> 0, productId |-> 0]
NoSess == [opened |-> FALSE, claimed |-> FALSE, released |-> FALSE, closeCalled |-> FALSE]
NoOutcome == [kind |-> "none", resp |-> NoResp]

\* a RazerDevice of a list: the handle is the pair of scan and product id
DeviceOf(list, k) == [scan |-> list.scan, productId |-> list.devs[k]]
hasWireless(dev) == RAZER_PRODUCTS[dev.productId].hasWireless
isKeyboard(dev) == isKeyboardDevice(dev.productId)

IdleTask ==
    [op |-> "idle", target |-> 0, pc |-> "idle", wait |-> "none", await |-> 0,
     stale |-> FALSE, got |-> NoList, gret |-> "none", list |-> NoList, i |-> 0,
     tried |-> FALSE, inCatch |-> FALSE, outer |-> FALSE, rdev |-> NoDev,
     qdev |-> NoDev, phase |-> "none", command |-> 0, index |-> 0,
     level |-> -1, sess |-> NoSess,
     pend |-> NoOutcome, nInv |-> 0, nQ |-> 0, out |-> "none"]

DoneTask == [IdleTask EXCEPT !.op = "done", !.pc = "done"]

NoEv ==
    [gard |-> "none", gardPop |-> FALSE, gardFirst |-> FALSE, keyDown |-> FALSE,
     gbfdT |-> 0, gbfd |-> "none", retI |-> 0, retDevs |-> << >>,
     retT |-> 0, retOp |-> "none", retTarget |-> 0, retKind |-> "none", retPid |-> 0,
     retLevel |-> -1, retCharging |-> FALSE,
     retCachePop |-> FALSE, retNInv |-> 0, retNQ |-> 0,
     cmdExit |-> FALSE, cmdSess |-> NoSess,
     cmdT |-> 0, cmdPhase |-> "none", cmdOut |-> "none", cmdShort |-> FALSE,
     retryTarget |-> 0, retryOrig |-> 0, retryChosen |-> 0, retryFresh |-> <<>>,
     scanId |-> 0, scanAll |-> << >>]

\* the state as one record, so that code sequences compose as functions
Cur ==
    [cachedDevices |-> cachedDevices, deviceCacheTimestamp |-> deviceCacheTimestamp,
     deviceEnumerationPromise |-> deviceEnumerationPromise, now |-> now,
     scanWaiters |-> scanWaiters, scanRes |-> scanRes, scanFailed |-> scanFailed,
     task |-> task, runq |-> runq, calls |-> calls,
     epochScans |-> epochScans, epochFirst |-> epochFirst,
     invPending |-> invPending, ev |-> NoEv]

\* the scan ids some part of the state still refers to
ScansInUse(s) ==
    {s.cachedDevices.scan, s.deviceEnumerationPromise, s.epochFirst}
    \cup DOMAIN s.scanWaiters
    \cup UNION {{s.task[t].await, s.task[t].got.scan, s.task[t].list.scan,
                 s.task[t].rdev.scan, s.task[t].qdev.scan} : t \in Tasks}

\* a scan id nothing refers to: the promise and device objects of a new scan
\* are distinct from every object still reachable
FreshScan(s) == CHOOSE id \in 1..(Cardinality(ScansInUse(s)) + 1) : id \notin ScansInUse(s)

Commit(s) ==
    /\ cachedDevices' = s.cachedDevices
    /\ deviceCacheTimestamp' = s.deviceCacheTimestamp
    /\ deviceEnumerationPromise' = s.deviceEnumerationPromise
    /\ now' = s.now
    /\ scanWaiters' = s.scanWaiters
    /\ scanRes' = [id \in DOMAIN s.scanRes \cap ScansInUse(s) |-> s.scanRes[id]]
    /\ scanFailed' = s.scanFailed \cap ({s.cachedDevices.scan}
                                        \cup {s.task[t].got.scan : t \in Tasks})
    /\ task' = s.task
    /\ runq' = s.runq
    /\ calls' = s.calls
    /\ epochScans' = s.epochScans
    /\ epochFirst' = s.epochFirst
    /\ invPending' = s.invPending
    /\ ev' = s.ev
    /\ svc' = svc
    /\ codec' = codec
    /\ ipc' = ipc /\ UNCHANGED <<bat, lst, usb, act, clock>>

(***************************************************************************)
(* Enumeration and cache manager                                           *)
(***************************************************************************)
\* the task is inside getAllRazerDevices, or holds the list it returned
InGetAll(tk) == tk.pc \in {"gard_cached", "gard_start", "gard_join", "after_gard"}

\* if (cachedDevices && deviceCacheTimestamp)
CachePopulated(s) == s.cachedDevices.scan # 0 /\ s.deviceCacheTimestamp # 0

EnumerationInProgress_never(s) == FALSE

\* if (deviceEnumerationPromise)
EnumerationInProgress(s) == s.deviceEnumerationPromise # 0

\* cache, timestamp and in-flight token are all null
Cleared(s) ==
    /\ s.cachedDevices = NoList
    /\ s.deviceCacheTimestamp = 0
    /\ s.deviceEnumerationPromise = 0

invalidateDeviceCache_keepsTimestamp(s) ==
    [s EXCEPT !.cachedDevices = NoList,
              !.deviceEnumerationPromise = 0,
              !.epochScans = 0, !.epochFirst = 0, !.invPending = TRUE]

invalidateDeviceCache(s) ==
    [s EXCEPT !.cachedDevices = NoList,
              !.deviceCacheTimestamp = 0,
              !.deviceEnumerationPromise = 0,
              !.epochScans = 0, !.epochFirst = 0, !.invPending = TRUE,
              !.task = [t \in Tasks |->
                          IF InGetAll(s.task[t])
                          THEN [s.task[t] EXCEPT !.stale = TRUE] ELSE s.task[t]]]

\* an invalidation made by the call of task t
InvalidateBy(s, t) ==
    LET s1 == invalidateDeviceCache(s)
    IN [s1 EXCEPT !.task[t].nInv = @ + 1]

\* getAllRazerDevices up to its first await; gret names the caller to resume
GetAllRazerDevices(s, t, gret) ==
    LET populated == CachePopulated(s)
        joining == ~populated /\ EnumerationInProgress(s)
        p == s.deviceEnumerationPromise
        id == FreshScan(s)
        s0 == [s EXCEPT !.invPending = FALSE,
                        !.ev = [@ EXCEPT !.gard = IF populated THEN "cached"
                                                  ELSE IF joining THEN "joined"
                                                  ELSE "started",
                                         !.gardPop = populated,
                                         !.gardFirst = s.invPending]]
        tk == [s.task[t] EXCEPT !.gret = gret, !.stale = FALSE]
    IN IF populated
       THEN [s0 EXCEPT !.task[t] = [tk EXCEPT !.pc = "gard_cached", !.wait = "run",
                                              !.await = 0, !.got = s.cachedDevices],
                       !.runq = Append(@, t)]
       ELSE IF joining
       THEN IF p \in DOMAIN s.scanWaiters
            THEN [s0 EXCEPT !.task[t] = [tk EXCEPT !.pc = "gard_join", !.wait = "scan",
                                                   !.await = p],
                            !.scanWaiters[p] = Append(@, t)]
            ELSE [s0 EXCEPT !.task[t] = [tk EXCEPT !.pc = "gard_join", !.wait = "run",
                                                   !.await = p,
                                                   !.got = [scan |-> p, devs |-> s.scanRes[p]]],
                            !.runq = Append(@, t)]
       ELSE [s0 EXCEPT !.task[t] = [tk EXCEPT !.pc = "gard_start", !.wait = "scan",
                                              !.await = id],
                       !.scanWaiters = (id :> <<t>>) @@ @,
                       !.deviceEnumerationPromise = id,
                       !.epochScans = @ + 1,
                       !.epochFirst = IF @ = 0 THEN id ELSE @]

\* the list a scan of the bus yields; a scan that hits an error yields []
performDeviceEnumeration_anyVendor(bus, threw) ==
    LET Known(d) == d[2] \in DOMAIN RAZER_PRODUCTS
        kept == SelectSeq(bus, Known)
    IN IF threw THEN <<>> ELSE [k \in 1..Len(kept) |-> kept[k][2]]

performDeviceEnumeration(bus, threw) ==
    LET Known(d) == d[1] = RAZER_VENDOR_ID /\ d[2] \in DOMAIN RAZER_PRODUCTS
        kept == SelectSeq(bus, Known)
    IN IF threw THEN <<>> ELSE [k \in 1..Len(kept) |-> kept[k][2]]

(***************************************************************************)
(* Query orchestrator                                                      *)
(***************************************************************************)
\* the call of task t completes with out (a result, null, or a thrown error)
Return(s, t, out) ==
    LET tk == s.task[t]
        e == [s.ev EXCEPT !.retT = t, !.retOp = tk.op, !.retTarget = tk.target,
                          !.retKind = out.kind, !.retPid = out.productId,
                          !.retLevel = out.batteryLevel, !.retCharging = out.isCharging,
                          !.retCachePop = (s.cachedDevices.scan # 0),
                          !.retNInv = tk.nInv, !.retNQ = tk.nQ,
                          !.retI = tk.i, !.retDevs = tk.list.devs]
    IN IF tk.op \in {"mouse", "keyboard"}
       THEN [s EXCEPT !.ev = e,
                      !.task[t] = [IdleTask EXCEPT !.op = tk.op, !.pc = "host",
                                                   !.wait = "run", !.out = out.kind],
                      !.runq = Append(@, t)]
       ELSE [s EXCEPT !.ev = e, !.task[t] = DoneTask]

\* the command byte of an exchange: 0x84 asks for the charging status, 0x80
\* for the battery level
CommandOf(phase) == IF phase = "charging" THEN 132 ELSE 128

InterfaceIndexOf_zero(dev) == 0

\* the interface index of the control transfers: 2 for keyboards, 0 for mice
InterfaceIndexOf(dev) == IF isKeyboard(dev) THEN 2 ELSE 0

\* sendRazerBatteryCommand is entered: device.open() is awaited
StartCommand(s, t, phase) ==
    [s EXCEPT !.task[t] = [@ EXCEPT !.pc = "open", !.wait = "io", !.phase = phase,
                                    !.command = CommandOf(phase),
                                    !.index = InterfaceIndexOf(s.task[t].qdev),
                                    !.sess = NoSess, !.pend = NoOutcome]]

\* getBatteryFromKeyboard / getBatteryFromMouse on dev
StartQuery(s, t, dev) ==
    StartCommand([s EXCEPT !.task[t].qdev = dev, !.task[t].nQ = @ + 1,
                           !.task[t].level = -1],
                 t, IF isKeyboard(dev) THEN "kb" ELSE "battery")

Candidates_anyClass(op, list) ==
    LET Want(p) == RAZER_PRODUCTS[p].hasWireless
    IN SelectSeq(list.devs, Want)

\* the candidates of a first-of-class query, in the order of list.devs
Candidates(op, list) ==
    LET Want(p) == /\ RAZER_PRODUCTS[p].hasWireless
                   /\ (op = "mouse" => ~isKeyboardDevice(p))
                   /\ (op = "keyboard" => isKeyboardDevice(p))
    IN SelectSeq(list.devs, Want)

RECURSIVE GbfdReturn(_, _, _)

\* getBatteryFromDevice(razerDevice) up to its first await
GetBatteryFromDevice(s, t, dev) ==
    LET s1 == [s EXCEPT !.task[t].rdev = dev, !.task[t].inCatch = FALSE]
    IN IF dev.productId \notin WIRELESS_DEVICES
       THEN GbfdReturn(s1, t, NoResult)
       ELSE StartQuery(s1, t, dev)

\* the loop of a first-of-class query moves on to its next candidate
NextCandidate(s, t) ==
    LET tk == s.task[t]
        cands == Candidates(tk.op, tk.list)
    IN IF tk.i + 1 <= Len(cands)
       THEN GetBatteryFromDevice([s EXCEPT !.task[t].i = tk.i + 1], t,
                                 [scan |-> tk.list.scan, productId |-> cands[tk.i + 1]])
       ELSE Return(s, t, NoResult)

GbfdReturn_ignoresTried(s0, t, o) ==
    LET s == [s0 EXCEPT !.ev.gbfdT = t, !.ev.gbfd = o.kind]
        tk == s.task[t]
    IN IF tk.op = "battery" /\ tk.target # 0
       THEN IF o.kind = "usb" /\ ~tk.outer
            THEN GetAllRazerDevices(InvalidateBy(s, t), t, "outer")
            ELSE Return(s, t, o)
       ELSE IF o.kind = "result" THEN Return(s, t, o)
       ELSE IF o.kind = "usb"
            THEN GetAllRazerDevices(InvalidateBy(s, t), t, "loop")
            ELSE NextCandidate(s, t)

\* getBatteryFromDevice has ended with o; its caller continues
GbfdReturn(s0, t, o) ==
    LET s == [s0 EXCEPT !.ev.gbfdT = t, !.ev.gbfd = o.kind]
        tk == s.task[t]
    IN IF tk.op = "battery" /\ tk.target # 0
       THEN IF o.kind = "usb" /\ ~tk.outer
            THEN GetAllRazerDevices(InvalidateBy(s, t), t, "outer")
            ELSE Return(s, t, o)
       ELSE IF o.kind = "result" THEN Return(s, t, o)
       ELSE IF o.kind = "usb" /\ ~tk.tried
            THEN GetAllRazerDevices(InvalidateBy(s, t), t, "loop")
            ELSE NextCandidate(s, t)

QueryDone_retriesAnyFailure(s, t, o) ==
    IF o.kind # "result" /\ ~s.task[t].inCatch
    THEN GetAllRazerDevices(InvalidateBy(s, t), t, "gbfd")
    ELSE GbfdReturn(s, t, o)

\* getBatteryFromKeyboard / getBatteryFromMouse has ended with o, inside
\* getBatteryFromDevice: its try block the first time, its catch block after
QueryDone(s, t, o) ==
    IF o.kind = "usb" /\ ~s.task[t].inCatch
    THEN GetAllRazerDevices(InvalidateBy(s, t), t, "gbfd")
    ELSE GbfdReturn(s, t, o)

\* a first-of-class query starts over a device list
ClassStart(s, t, list) ==
    LET op == s.task[t].op
        cands == Candidates(op, list)
        s1 == [s EXCEPT !.task[t].list = list, !.task[t].i = 1]
    IN IF Len(cands) = 0
       THEN Return(InvalidateBy(s1, t), t, NoResult)
       ELSE GetBatteryFromDevice(s1, t, [scan |-> list.scan, productId |-> cands[1]])

\* getAllRazerDevices has returned list to the code that awaited it
AfterGard(s, t, list) ==
    LET tk == s.task[t]
        s0 == [s EXCEPT !.task[t].got = NoList, !.task[t].await = 0,
                        !.task[t].gret = "none", !.task[t].stale = FALSE]
        Is(p) == p = tk.target
        found == SelectSeq(list.devs, Is)
        SameType(p) == RAZER_PRODUCTS[p].hasWireless
                       /\ isKeyboardDevice(p) = isKeyboard(tk.rdev)
        devicesByType == SelectSeq(list.devs, SameType)
    IN CASE tk.gret = "top" /\ tk.op = "list" ->
              Return(s0, t, [NoResult EXCEPT !.kind = "list"])
         [] tk.gret = "top" /\ tk.op = "battery" /\ tk.target # 0 ->
              IF Len(found) = 0
              THEN Return(s0, t, NoResult)
              ELSE GetBatteryFromDevice([s0 EXCEPT !.task[t].list = list], t,
                                        [scan |-> list.scan, productId |-> found[1]])
         [] tk.gret = "top" /\ ~(tk.op = "list" \/ (tk.op = "battery" /\ tk.target # 0)) ->
              ClassStart(s0, t, list)
         [] tk.gret = "gbfd" ->
              IF Len(devicesByType) > 0
              THEN StartQuery([s0 EXCEPT !.task[t].inCatch = TRUE,
                                         !.ev = [@ EXCEPT !.retryTarget = tk.target,
                                                          !.retryOrig = tk.rdev.productId,
                                                          !.retryChosen = devicesByType[1],
                                                          !.retryFresh = list.devs]],
                              t, [scan |-> list.scan, productId |-> devicesByType[1]])
              ELSE GbfdReturn([s0 EXCEPT !.task[t].inCatch = TRUE], t, NoResult)
         [] tk.gret = "outer" ->
              IF Len(found) > 0
              THEN GetBatteryFromDevice([s0 EXCEPT !.task[t].list = list,
                                                   !.task[t].outer = TRUE], t,
                                        [scan |-> list.scan, productId |-> found[1]])
              ELSE Return(s0, t, Thrown("usb"))
         [] tk.gret = "loop" ->
              IF tk.op = "battery"
              THEN Return([s0 EXCEPT !.task[t].list = list, !.task[t].tried = TRUE],
                          t, NoResult)
              ELSE LET s1 == [s0 EXCEPT !.task[t].list = list, !.task[t].tried = TRUE,
                                        !.task[t].i = 0]
                   IN NextCandidate(s1, t)

RetryWorthy_anyError(responseStatus) == responseStatus # 2

\* if (responseStatus === 0x01): the quick retry of the battery command
RetryWorthy(responseStatus) == responseStatus = 1

ChargingFrom_trueOnFailure(o) ==
    ~(o.kind = "resp" /\ o.resp.byteLength >= 10 /\ o.resp.bytes[1] = 2)
    \/ o.resp.bytes[10] = 1

\* isCharging after the charging request ended with o: false unless the reply
\* has 10 bytes, status 0x02 and byte 9 = 0x01
ChargingFrom(o) ==
    /\ o.kind = "resp"
    /\ o.resp.byteLength >= 10
    /\ o.resp.bytes[1] = 2
    /\ o.resp.bytes[10] = 1

ViperFallback_anyStatus(productId, responseStatus) == productId = 122

\* productId === 0x007A && responseStatus === 0x05
ViperFallback(productId, responseStatus) == productId = 122 /\ responseStatus = 5

\* sendRazerBatteryCommand has ended with o (a response or a thrown error)
CommandExit(s, t, o) ==
    LET tk == s.task[t]
        pid == tk.qdev.productId
        r == o.resp
        short == r.byteLength < 10
        s1 == [s EXCEPT !.ev = [@ EXCEPT !.cmdExit = TRUE, !.cmdSess = tk.sess,
                                         !.cmdT = t, !.cmdPhase = tk.phase,
                                         !.cmdOut = o.kind, !.cmdShort = short],
                        !.task[t].sess = NoSess, !.task[t].pend = NoOutcome,
                        !.task[t].pc = "none", !.task[t].phase = "none",
                        !.task[t].command = 0, !.task[t].index = 0]
    IN CASE tk.phase = "kb" ->
              IF o.kind = "resp" THEN QueryDone(s1, t, KeyboardDecode(r, pid))
              ELSE IF o.kind = "usb" THEN QueryDone(s1, t, Thrown("usb"))
              ELSE QueryDone(s1, t, NoResult)
         [] tk.phase = "battery" ->
              IF o.kind = "usb" THEN QueryDone(s1, t, Thrown("usb"))
              ELSE IF o.kind = "other" \/ short THEN QueryDone(s1, t, NoResult)
              ELSE IF r.bytes[1] = 2
              THEN StartCommand([s1 EXCEPT !.task[t].level = MouseBatteryLevel(r)],
                                t, "charging")
              ELSE IF RetryWorthy(r.bytes[1]) THEN StartCommand(s1, t, "retry")
              ELSE IF ViperFallback(pid, r.bytes[1]) THEN QueryDone(s1, t, ViperScan(r, 8, pid))
              ELSE QueryDone(s1, t, NoResult)
         [] tk.phase = "retry" ->
              IF o.kind = "resp" /\ ~short /\ r.bytes[1] = 2
              THEN StartCommand([s1 EXCEPT !.task[t].level = MouseBatteryLevel(r)],
                                t, "charging")
              ELSE QueryDone(s1, t, NoResult)
         [] tk.phase = "charging" ->
              QueryDone(s1, t, BatteryResult(tk.level, ChargingFrom(o), pid))

(***************************************************************************)
(* The child-process service (RazerBatteryService of part_002) and the     *)
(* title an action sets from its answer                                    *)
(***************************************************************************)
\* the title of a key: a fixed text, or formatDisplayText(percent, isCharging)
Title(text, percent, bolt) == [text |-> text, percent |-> percent, bolt |-> bolt]

NoTitle == Title("none", 0, FALSE)

IdleService ==
    [pc |-> "idle", kind |-> "none", forceRefresh |-> FALSE, n |-> 0,
     replies |-> << >>, sent |-> 0, invalidations |-> 0, invAfterReply |-> 0,
     info |-> NoResult, title |-> NoTitle]

\* what the worker answers to a 'mouse' / 'keyboard' message: null or a reading
WorkerReplies(kind) ==
    {NoResult} \cup
    {BatteryResult(level, charging, IF kind = "keyboard" THEN 604 ELSE 123) :
        level \in ReplyLevels, charging \in BOOLEAN}

\* (!result || (result.batteryLevel === null && !result.isCharging)) && !forceRefresh
RetryWanted(result, forceRefresh) ==
    /\ \/ result.kind = "null"
       \/ (result.batteryLevel = -1 /\ ~result.isCharging)
    /\ ~forceRefresh

Accepted_levelOnly(result) == result.kind # "null" /\ result.batteryLevel # -1

\* result && (result.batteryLevel !== null || result.isCharging)
Accepted(result) ==
    result.kind # "null" /\ (result.batteryLevel # -1 \/ result.isCharging)

\* Math.round of a level kept in tenths of a percent
RoundPercent(level) == (level + 5) \div 10

\* the title updateBatteryDisplay sets for batteryInfo
DisplayTitle(batteryInfo) ==
    IF batteryInfo.kind # "null"
    THEN IF batteryInfo.isCharging /\ batteryInfo.batteryLevel = -1
         THEN Title("formatted", 0, TRUE)
         ELSE IF batteryInfo.batteryLevel # -1
         THEN Title("formatted", RoundPercent(batteryInfo.batteryLevel),
                    batteryInfo.isCharging)
         ELSE Title("No Data", 0, FALSE)
    ELSE Title("No Device", 0, FALSE)

\* getMouseBatteryInfo / getKeyboardBatteryInfo returns info to
\* updateBatteryDisplay, which sets the title and on null invalidates
ShowInfo(v, info, invalidated) ==
    LET inv == invalidated + (IF info.kind = "null" THEN 1 ELSE 0)
    IN [v EXCEPT !.pc = "shown", !.info = info, !.title = DisplayTitle(info),
                 !.invalidations = @ + inv, !.invAfterReply = @ + inv]

\* updateBatteryDisplay(ev, forceRefresh) calls getMouseBatteryInfo /
\* getKeyboardBatteryInfo, which sends its first message to the worker
ServiceCall(kind, forceRefresh) ==
    /\ svc.pc \in {"idle", "shown"}
    /\ svc.n < MaxServiceCalls
    /\ svc' = [IdleService EXCEPT !.pc = "wait", !.kind = kind,
                                  !.forceRefresh = forceRefresh, !.n = svc.n + 1,
                                  !.invalidations = IF forceRefresh THEN 1 ELSE 0,
                                  !.sent = 1]
    /\ UNCHANGED <<workerVars, codec, ipc, bat, lst, usb, act, clock>>

\* the worker's answer arrives
ServiceReply(result) ==
    /\ svc.pc = "wait"
    /\ LET v == [svc EXCEPT !.replies = Append(@, result), !.invAfterReply = 0]
       IN svc' = IF svc.sent = 1 /\ RetryWanted(result, svc.forceRefresh)
                 THEN [v EXCEPT !.invalidations = @ + 1, !.invAfterReply = 1,
                                !.sent = 2]
                 ELSE IF Accepted(result)
                 THEN ShowInfo(v, result, 0)
                 ELSE ShowInfo(v, NoResult, 1)
    /\ UNCHANGED <<workerVars, codec, ipc, bat, lst, usb, act, clock>>

\* sendMessage rejects (worker timeout, worker gone): the service returns null
ServiceTimeout ==
    /\ svc.pc = "wait"
    /\ svc' = ShowInfo(svc, NoResult, 0)
    /\ UNCHANGED <<workerVars, codec, ipc, bat, lst, usb, act, clock>>

(***************************************************************************)
(* The client of the persistent worker: sendMessage and the 'message'      *)
(* handler (RazerBatteryService, test-persistent-worker.cjs)               *)
(***************************************************************************)
ClientCommands == {"list", "battery"}

\* the promise sendMessage returns, and the id of the message that settled it
\* and its timer: "armed", "cleared" or "fired"
Request(id, command) ==
    [id |-> id, command |-> command, state |-> "pending", by |-> 0, timer |-> "armed"]

\* a forked worker process: running or exited, its killed flag, whether the
\* service's listeners are attached, and the last signal sent to it
ForkedWorker == [alive |-> TRUE, killed |-> FALSE, listeners |-> TRUE, signal |-> "none"]

\* pendingMessages maps a message id to its promise (an index of requests);
\* worker is an index of workers (0: null); forceKill holds, per shutdown, the
\* worker it terminated and whether its five-second timer has fired
IdleClient ==
    [messageId |-> 0, pendingMessages |-> << >>, requests |-> << >>,
     last |-> [kind |-> "none", id |-> 0],
     worker |-> 0, workers |-> << >>, isShuttingDown |-> FALSE, forceKill |-> << >>]

\* resolve / reject of a promise: a settled promise stays as it is
Settle(requests, n, state, by) ==
    IF requests[n].state = "pending"
    THEN [requests EXCEPT ![n].state = state, ![n].by = by]
    ELSE requests

\* pendingMessages.delete(id)
Delete(pendingMessages, id) ==
    [k \in DOMAIN pendingMessages \ {id} |-> pendingMessages[k]]

\* clearTimeout(pendingMessage.timeout)
ClearTimeout(requests, n) ==
    [requests EXCEPT ![n].timer = IF @ = "armed" THEN "cleared" ELSE @]

\* for (const [id, pendingMessage] of pendingMessages) { clearTimeout; reject }
\* pendingMessages.clear()
RejectPending(c, state) ==
    [c EXCEPT !.requests =
                 [n \in DOMAIN c.requests |->
                     IF \E k \in DOMAIN c.pendingMessages : c.pendingMessages[k] = n
                     THEN Settle(ClearTimeout(c.requests, n), n, state, 0)[n]
                     ELSE c.requests[n]],
              !.pendingMessages = << >>]

\* startWorker(): fork a worker unless one is referenced and not killed
StartWorker(c) ==
    IF c.worker # 0 /\ ~c.workers[c.worker].killed
    THEN c
    ELSE [c EXCEPT !.workers = Append(@, ForkedWorker), !.worker = Len(c.workers) + 1]

\* sendMessage(command): await startWorker(); const id = ++messageId;
\* pendingMessages.set(id, ...)
SendMessage(command) ==
    /\ Len(ipc.requests) < MaxRequests
    /\ Len(StartWorker(ipc).workers) <= MaxWorkers
    /\ LET id == ipc.messageId + 1
           n == Len(ipc.requests) + 1
       IN ipc' = [StartWorker(ipc) EXCEPT
                             !.messageId = id,
                             !.requests = Append(@, Request(id, command)),
                             !.pendingMessages = (id :> n) @@ @,
                             !.last = [kind |-> "send", id |-> id]]
    /\ UNCHANGED <<workerVars, svc, codec, bat, lst, usb, act, clock>>

OnMessage_oldestPending(id, success) ==
    /\ LET pm == ipc.pendingMessages
           oldest == CHOOSE k \in DOMAIN pm : \A j \in DOMAIN pm : k <= j
       IN IF DOMAIN pm # {}
          THEN ipc' = [ipc EXCEPT !.pendingMessages = Delete(pm, oldest),
                                  !.requests = Settle(ClearTimeout(@, pm[oldest]),
                                                      pm[oldest],
                                                      IF success THEN "resolved"
                                                      ELSE "rejected", id),
                                  !.last = [kind |-> "message", id |-> id]]
          ELSE ipc' = [ipc EXCEPT !.last = [kind |-> "message", id |-> id]]
    /\ UNCHANGED <<workerVars, svc, codec, bat, lst, usb, act, clock>>

\* worker.on('message'): a message with this id arrives from the worker
OnMessage(id, success) ==
    /\ LET pm == ipc.pendingMessages
       IN IF id \in DOMAIN pm
          THEN ipc' = [ipc EXCEPT !.pendingMessages = Delete(pm, id),
                                  !.requests = Settle(ClearTimeout(@, pm[id]), pm[id],
                                                      IF success THEN "resolved"
                                                      ELSE "rejected", id),
                                  !.last = [kind |-> "message", id |-> id]]
          ELSE ipc' = [ipc EXCEPT !.last = [kind |-> "message", id |-> id]]
    /\ UNCHANGED <<workerVars, svc, codec, bat, lst, usb, act, clock>>

OnTimeout_keepsEntry(id) ==
    /\ \E n \in DOMAIN ipc.requests :
          /\ ipc.requests[n].id = id
          /\ ipc.requests[n].timer = "armed"
          /\ ipc' = [ipc EXCEPT !.requests = Settle([@ EXCEPT ![n].timer = "fired"],
                                                    n, "timeout", 0),
                                !.last = [kind |-> "timeout", id |-> id]]
    /\ UNCHANGED <<workerVars, svc, codec, bat, lst, usb, act, clock>>

\* the timer of the sendMessage that took this id fires:
\* pendingMessages.delete(id); reject(...)
OnTimeout(id) ==
    /\ \E n \in DOMAIN ipc.requests :
          /\ ipc.requests[n].id = id
          /\ ipc.requests[n].timer = "armed"
          /\ ipc' = [ipc EXCEPT !.pendingMessages = Delete(@, id),
                                !.requests = Settle([@ EXCEPT ![n].timer = "fired"],
                                                    n, "timeout", 0),
                                !.last = [kind |-> "timeout", id |-> id]]
    /\ UNCHANGED <<workerVars, svc, codec, bat, lst, usb, act, clock>>

handleWorkerExit_keepsPending(c) ==
    IF c.worker # 0
    THEN [c EXCEPT !.workers[c.worker].listeners = FALSE, !.worker = 0]
    ELSE c

\* handleWorkerExit(): reject and clear the pending messages, remove the
\* listeners of this.worker and set it to null
handleWorkerExit(c) ==
    LET c1 == RejectPending(c, "exit")
    IN IF c1.worker # 0
       THEN [c1 EXCEPT !.workers[c1.worker].listeners = FALSE, !.worker = 0]
       ELSE c1

\* worker w exits; its 'exit' listener, when still attached, runs handleWorkerExit
WorkerExit(w) ==
    /\ w \in DOMAIN ipc.workers
    /\ ipc.workers[w].alive
    /\ LET c == [ipc EXCEPT !.workers[w].alive = FALSE,
                            !.last = [kind |-> "exit", id |-> w]]
       IN ipc' = IF ipc.workers[w].listeners THEN handleWorkerExit(c) ELSE c
    /\ UNCHANGED <<workerVars, svc, codec, bat, lst, usb, act, clock>>

\* worker w emits 'error' (a failed send or kill): its listener runs handleWorkerExit
WorkerError(w) ==
    /\ w \in DOMAIN ipc.workers
    /\ ipc.workers[w].alive
    /\ ipc.workers[w].listeners
    /\ ipc' = handleWorkerExit([ipc EXCEPT !.last = [kind |-> "error", id |-> w]])
    /\ UNCHANGED <<workerVars, svc, codec, bat, lst, usb, act, clock>>

\* shutdown(): reject the pending messages, SIGTERM the worker, arm the
\* five-second timer and set this.worker to null
Shutdown ==
    /\ ipc.worker # 0
    /\ ~ipc.workers[ipc.worker].killed
    /\ LET w == ipc.worker
           c == RejectPending([ipc EXCEPT !.isShuttingDown = TRUE], "shutdown")
       IN ipc' = [c EXCEPT !.workers[w].killed = TRUE,
                           !.workers[w].signal = "SIGTERM",
                           !.forceKill = Append(@, [worker |-> w, fired |-> FALSE]),
                           !.worker = 0,
                           !.last = [kind |-> "shutdown", id |-> w]]
    /\ UNCHANGED <<workerVars, svc, codec, bat, lst, usb, act, clock>>

\* the five-second timer of the k-th shutdown fires:
\* if (this.worker && !this.worker.killed) this.worker.kill('SIGKILL')
ForceKill(k) ==
    /\ k \in DOMAIN ipc.forceKill
    /\ ~ipc.forceKill[k].fired
    /\ LET c == [ipc EXCEPT !.forceKill[k].fired = TRUE,
                            !.last = [kind |-> "forceKill", id |-> k]]
       IN ipc' = IF c.worker # 0 /\ ~c.workers[c.worker].killed
                 THEN [c EXCEPT !.workers[c.worker].killed = TRUE,
                                !.workers[c.worker].signal = "SIGKILL"]
                 ELSE c
    /\ UNCHANGED <<workerVars, svc, codec, bat, lst, usb, act, clock>>

(***************************************************************************)
(* The battery cache of the persistent-worker service: getBatteryInfo,     *)
(* getBatteryInfoForDeviceType and invalidateDeviceCache                   *)
(***************************************************************************)
BATTERY_CACHE_DURATION == 10000

NoReading == [kind |-> "null", productId |-> 0, query |-> 0, epoch |-> 0, timestamp |-> 0]

\* what the worker answers battery query number query with, sent after epoch
\* invalidations; timestamp is set when the reading is cached
Reading(productId, query, epoch) ==
    [kind |-> "result", productId |-> productId, query |-> query, epoch |-> epoch,
     timestamp |-> 0]

IdleBatCall ==
    [pc |-> "none", kind |-> "none", target |-> 0, asked |-> 0, query |-> 0, epoch |-> 0,
     result |-> NoReading, via |-> "none", retried |-> FALSE]

IdleBattery ==
    [batteryCache |-> << >>, retryAttempted |-> FALSE,
     invalidations |-> 0, queries |-> 0,
     call |-> [c \in 1..MaxBatCalls |-> IdleBatCall]]

\* invalidateDeviceCache(): batteryCache.clear()
InvalidateBattery(b) ==
    [b EXCEPT !.batteryCache = << >>, !.invalidations = @ + 1]

\* call c returns result
BatReturn(b, c, result, via) ==
    [b EXCEPT !.call[c].pc = "done", !.call[c].result = result, !.call[c].via = via]

\* sendMessage('battery', [productId]) of call c
BatSend(b, c, productId, pc) ==
    [b EXCEPT !.queries = @ + 1,
              !.call[c].pc = pc, !.call[c].asked = productId,
              !.call[c].query = b.queries + 1, !.call[c].epoch = b.invalidations]

\* the battery cache is consulted for productId, then the worker is asked:
\* cachedBattery && (now - cachedBattery.timestamp) < BATTERY_CACHE_DURATION
CacheOrSend(b, c, productId, pc) ==
    IF /\ productId \in DOMAIN b.batteryCache
       /\ clock - b.batteryCache[productId].timestamp < BATTERY_CACHE_DURATION
    THEN BatReturn(b, c, b.batteryCache[productId], "cache")
    ELSE BatSend(b, c, productId, pc)

\* getBatteryInfo(target) or getBatteryInfoForDeviceType(any mouse) is called:
\* its first await is the 'list' message of getAvailableDevices
BatCall(c, kind, target) ==
    /\ bat.call[c].pc = "none"
    /\ \A d \in 1..(c - 1) : bat.call[d].pc # "none"
    /\ bat' = [bat EXCEPT !.call[c] = [IdleBatCall EXCEPT !.pc = IF kind = "info" THEN "list1"
                                                                 ELSE "tlist",
                                                          !.kind = kind, !.target = target]]
    /\ UNCHANGED <<workerVars, svc, codec, ipc, lst, usb, act, clock>>

\* the 'list' message call c awaits is answered (or rejected: threw)
BatListReply(c, devices, threw) ==
    /\ bat.call[c].pc \in {"list1", "list2", "rlist", "tlist"}
    /\ LET k == bat.call[c]
           b == bat
           \* devices.find(predicate)
           FindDevice(list, Wanted(_)) ==
               LET hits == {i \in DOMAIN list : Wanted(list[i])}
               IN IF hits = {} THEN 0
                  ELSE list[CHOOSE i \in hits : \A j \in hits : i <= j]
           \* deviceMatches(deviceProductId, targetProductId): the same id, or
           \* the confirmed pair 0x7a / 0x7b
           deviceMatches(deviceProductId, targetProductId) ==
               \/ deviceProductId = targetProductId
               \/ (deviceProductId = 122 /\ targetProductId = 123)
               \/ (deviceProductId = 123 /\ targetProductId = 122)
           Same(d) == d = k.target
           Paired(d) == deviceMatches(d, k.target)
           IsTarget(d) == TRUE
       IN bat' =
            IF threw THEN BatReturn(b, c, NoReading, "error")
            ELSE CASE k.pc = "list1" ->
                        IF FindDevice(devices, Same) # 0
                        THEN CacheOrSend(b, c, k.target, "battery")
                        ELSE [InvalidateBattery(b) EXCEPT !.call[c].pc = "list2"]
                   [] k.pc = "list2" ->
                        IF FindDevice(devices, Same) # 0
                        THEN CacheOrSend(b, c, k.target, "battery")
                        ELSE BatReturn(b, c, NoReading, "notfound")
                   [] k.pc = "rlist" ->
                        IF FindDevice(devices, Paired) # 0
                        THEN BatSend(b, c, FindDevice(devices, Paired), "rbattery")
                        ELSE BatReturn(b, c, NoReading, "notfound")
                   [] k.pc = "tlist" ->
                        IF FindDevice(devices, IsTarget) # 0
                        THEN CacheOrSend([b EXCEPT !.call[c].target = FindDevice(devices, IsTarget)],
                                         c, FindDevice(devices, IsTarget), "ibattery")
                        ELSE BatReturn(b, c, NoReading, "notfound")
    /\ UNCHANGED <<workerVars, svc, codec, ipc, lst, usb, act, clock>>

\* the 'battery' message call c awaits is answered with a reading (found) or
\* null, or rejected (threw)
BatBatteryReply(c, found, threw) ==
    /\ bat.call[c].pc \in {"battery", "rbattery", "ibattery"}
    /\ LET k == bat.call[c]
           b == bat
           result == IF found THEN Reading(k.asked, k.query, k.epoch) ELSE NoReading
           \* batteryCache.set(targetProductId, {...result, timestamp: Date.now()})
           stored == IF found
                     THEN [b EXCEPT !.batteryCache =
                              (k.target :> [result EXCEPT !.timestamp = clock]) @@ @]
                     ELSE b
       IN bat' =
            IF threw THEN BatReturn(b, c, NoReading, "error")
            ELSE CASE k.pc = "battery" ->
                        IF ~found /\ ~b.retryAttempted
                        THEN [InvalidateBattery([b EXCEPT !.retryAttempted = TRUE])
                                 EXCEPT !.call[c].pc = "rlist", !.call[c].retried = TRUE]
                        ELSE BatReturn([stored EXCEPT !.retryAttempted = FALSE],
                                       c, result, "worker")
                   [] k.pc = "rbattery" -> BatReturn(b, c, result, "worker")
                   [] k.pc = "ibattery" ->
                        BatReturn([stored EXCEPT !.retryAttempted = FALSE],
                                  c, result, "worker")
    /\ UNCHANGED <<workerVars, svc, codec, ipc, lst, usb, act, clock>>

\* onKeyDown: batteryService.invalidateDeviceCache()
BatInvalidate ==
    /\ bat.invalidations < MaxBatCalls
    /\ bat' = InvalidateBattery(bat)
    /\ UNCHANGED <<workerVars, svc, codec, ipc, lst, usb, act, clock>>

\* time passes in the plugin process
HostTick(step, max) ==
    /\ clock < max
    /\ clock' = clock + step
    /\ UNCHANGED <<workerVars, svc, codec, ipc, bat, lst, usb, act>>

(***************************************************************************)
(* The device list of the caching service variant (part_004):              *)
(* getAvailableDevices, performDeviceEnumeration, invalidateDeviceCache    *)
(***************************************************************************)
DEVICE_CACHE_RETRY_INTERVAL == 5000

\* the timeout of sendMessage('list', [], 10000)
LIST_TIMEOUT == 10000

\* deviceListCache is "null" or a device list; lastDeviceListError is 0 or a
\* time; deviceEnumerationPromise is 0 (null) or an index of enumerations,
\* each with the time performDeviceEnumeration read at its start, the state
\* of its 'list' request and whether an invalidation dropped it; call holds what each caller awaits or got;
\* failedAt is the time of the last failure of a 'list' request (0: none
\* since the last invalidation)
IdleList ==
    [deviceListCache |-> "null", lastDeviceListError |-> 0,
     deviceEnumerationPromise |-> 0, enumerations |-> << >>,
     call |-> [c \in 1..MaxListCalls |-> [pc |-> "none", awaits |-> 0, got |-> "none"]],
     failedAt |-> 0]

\* getAvailableDevices() is called, up to its return or its await
GetAvailableDevices(c) ==
    /\ lst.call[c].pc = "none"
    /\ \A d \in 1..(c - 1) : lst.call[d].pc # "none"
    /\ lst' =
         IF lst.deviceListCache # "null"
         THEN [lst EXCEPT !.call[c] = [pc |-> "done", awaits |-> 0, got |-> "cache"]]
         ELSE IF lst.deviceEnumerationPromise # 0
         THEN [lst EXCEPT !.call[c] = [pc |-> "joined", got |-> "none",
                                       awaits |-> lst.deviceEnumerationPromise]]
         ELSE IF /\ lst.lastDeviceListError > 0
                 /\ clock - lst.lastDeviceListError < DEVICE_CACHE_RETRY_INTERVAL
         THEN [lst EXCEPT !.call[c] = [pc |-> "done", awaits |-> 0, got |-> "empty"]]
         ELSE [lst EXCEPT !.enumerations = Append(@, [now |-> clock, state |-> "pending",
                                                           dropped |-> FALSE]),
                          !.deviceEnumerationPromise = Len(lst.enumerations) + 1,
                          !.call[c] = [pc |-> "started", got |-> "none",
                                       awaits |-> Len(lst.enumerations) + 1]]
    /\ UNCHANGED <<workerVars, svc, codec, ipc, bat, usb, act, clock>>

\* the 'list' request of enumeration p is answered (ok) or rejected:
\* performDeviceEnumeration finishes and the callers awaiting it continue
ListSettled(p, ok) ==
    /\ p \in DOMAIN lst.enumerations
    /\ lst.enumerations[p].state = "pending"
    /\ ok => clock - lst.enumerations[p].now < LIST_TIMEOUT
    /\ LET readAt == lst.enumerations[p].now
           started == \E c \in 1..MaxListCalls :
                         lst.call[c].pc = "started" /\ lst.call[c].awaits = p
       IN lst' = [lst EXCEPT
                    !.enumerations[p].state = IF ok THEN "ok" ELSE "failed",
                    !.deviceListCache = IF ok THEN "devices" ELSE @,
                    !.lastDeviceListError = IF ok THEN 0 ELSE readAt,
                    !.failedAt = IF ok THEN @ ELSE clock,
                    !.deviceEnumerationPromise = IF started THEN 0 ELSE @,
                    !.call = [c \in 1..MaxListCalls |->
                                 IF lst.call[c].pc \in {"started", "joined"}
                                    /\ lst.call[c].awaits = p
                                 THEN [pc |-> "done", awaits |-> p,
                                       got |-> IF ok THEN "devices" ELSE "empty"]
                                 ELSE lst.call[c]]]
    /\ UNCHANGED <<workerVars, svc, codec, ipc, bat, usb, act, clock>>

\* invalidateDeviceCache()
InvalidateList ==
    /\ lst' = [lst EXCEPT !.deviceListCache = "null", !.lastDeviceListError = 0,
                          !.deviceEnumerationPromise = 0, !.failedAt = 0,
                          !.enumerations =
                              [p \in DOMAIN @ |->
                                  [@[p] EXCEPT !.dropped = @ \/ lst.enumerations[p].state = "pending"]]]
    /\ UNCHANGED <<workerVars, svc, codec, ipc, bat, usb, act, clock>>

(***************************************************************************)
(* The USB access state of the spawn-per-request service variant           *)
(* (part_003): direct worker first, privileged service as fallback         *)
(***************************************************************************)
USB_RETRY_INTERVAL == 300000

\* call holds, per request, where it is ("direct": its worker is running) and
\* how it was served; failedAt is the time of the last failed direct attempt
\* (0: none)
IdleUsb ==
    [usbAccessFailed |-> FALSE, lastUsbCheck |-> 0,
     call |-> [c \in 1..MaxUsbCalls |-> [pc |-> "none", kind |-> "none", via |-> "none"]],
     failedAt |-> 0]

\* getAvailableDevices() / getBatteryInfo() is called: if shouldTryDirectUSB()
\* a worker is spawned, else the privileged service is asked
UsbRequest(c, kind) ==
    /\ usb.call[c].pc = "none"
    /\ \A d \in 1..(c - 1) : usb.call[d].pc # "none"
    /\ LET shouldTryDirectUSB ==
               \/ ~usb.usbAccessFailed
               \/ ~(clock - usb.lastUsbCheck < USB_RETRY_INTERVAL)
       IN usb' = [usb EXCEPT !.call[c] =
                     IF shouldTryDirectUSB
                     THEN [pc |-> "direct", kind |-> kind, via |-> "none"]
                     ELSE [pc |-> "done", kind |-> kind, via |-> "privileged"]]
    /\ UNCHANGED <<workerVars, svc, codec, ipc, bat, lst, act, clock>>

\* the worker of request c ends with a result (ok: markUsbAccessSuccess) or
\* without one (markUsbAccessFailed, then the privileged service)
DirectResult(c, ok) ==
    /\ usb.call[c].pc = "direct"
    /\ usb' = IF ok
              THEN [usb EXCEPT !.usbAccessFailed = FALSE,
                               !.lastUsbCheck = IF usb.usbAccessFailed THEN 0 ELSE @,
                               !.call[c].pc = "done", !.call[c].via = "direct"]
              ELSE [usb EXCEPT !.usbAccessFailed = TRUE,
                               !.lastUsbCheck = clock,
                               !.failedAt = clock,
                               !.call[c].pc = "done", !.call[c].via = "privileged"]
    /\ UNCHANGED <<workerVars, svc, codec, ipc, bat, lst, act, clock>>

(***************************************************************************)
(* A battery action (RazerBatteryAction, a singleton shared by its         *)
(* buttons) and the interval timers it sets                                *)
(***************************************************************************)
\* visible: the buttons shown; awaiting: the onWillAppear calls suspended in
\* updateBatteryDisplay, by button; updateInterval: the handle kept (0:
\* undefined); intervals: the interval timers scheduled, handle -> button;
\* appeared counts the onWillAppear events and created the timers set
IdleAction ==
    [visible |-> {}, awaiting |-> << >>, updateInterval |-> 0, intervals |-> << >>,
     appeared |-> 0, created |-> 0]

\* onWillAppear(ev) for button b, up to await this.updateBatteryDisplay(ev)
WillAppear(b) ==
    /\ b \notin act.visible
    /\ act.appeared < MaxAppear
    /\ act' = [act EXCEPT !.visible = @ \cup {b}, !.awaiting = Append(@, b),
                          !.appeared = @ + 1]
    /\ UNCHANGED <<workerVars, svc, codec, ipc, bat, lst, usb, clock>>

\* updateBatteryDisplay of the i-th suspended onWillAppear returns:
\* this.updateInterval = setInterval(...)
DisplayUpdated(i) ==
    /\ i \in DOMAIN act.awaiting
    /\ LET handle == act.created + 1
           rest == [j \in 1..(Len(act.awaiting) - 1) |->
                       IF j < i THEN act.awaiting[j] ELSE act.awaiting[j + 1]]
       IN act' = [act EXCEPT !.awaiting = rest,
                             !.intervals = (handle :> act.awaiting[i]) @@ @,
                             !.updateInterval = handle, !.created = handle]
    /\ UNCHANGED <<workerVars, svc, codec, ipc, bat, lst, usb, clock>>

\* onWillDisappear() for button b: clearInterval(this.updateInterval)
WillDisappear(b) ==
    /\ b \in act.visible
    /\ act' = IF act.updateInterval # 0
              THEN [act EXCEPT !.visible = @ \ {b},
                               !.intervals = [h \in DOMAIN @ \ {act.updateInterval} |-> @[h]],
                               !.updateInterval = 0]
              ELSE [act EXCEPT !.visible = @ \ {b}]
    /\ UNCHANGED <<workerVars, svc, codec, ipc, bat, lst, usb, clock>>


(***************************************************************************)
(* Actions                                                                 *)
(***************************************************************************)
\* the decoder has been handed nothing
NoCodec ==
    [stage |-> "none", productId |-> 0, resp |-> NoResp, out |-> NoResult,
     command |-> 0, frame |-> << >>, level |-> -1,
     info |-> [found |-> FALSE, info |-> NoProduct], chargingResp |-> NoResp]

Init ==
    /\ codec = NoCodec
    /\ cachedDevices = NoList
    /\ deviceCacheTimestamp = 0
    /\ deviceEnumerationPromise = 0
    /\ now = 1
    /\ scanWaiters = << >>
    /\ scanRes = << >>
    /\ scanFailed = {}
    /\ task = [t \in Tasks |-> IdleTask]
    /\ runq = << >>
    /\ calls = 0
    /\ epochScans = 0
    /\ epochFirst = 0
    /\ invPending = FALSE
    /\ ev = NoEv
    /\ svc = IdleService
    /\ ipc = IdleClient
    /\ bat = IdleBattery
    /\ lst = IdleList
    /\ usb = IdleUsb
    /\ act = IdleAction
    /\ clock = ClockStep

\* the host calls getAvailableDevices ("list"), getBatteryLevel(target?)
\* ("battery"), getMouseBatteryLevel ("mouse") or getKeyboardBatteryLevel
\* ("keyboard"); each of them first awaits getAllRazerDevices
Call(t, op, target) ==
    /\ runq = << >>
    /\ task[t].op \in {"idle", "done"}
    /\ Commit(GetAllRazerDevices(
                 [Cur EXCEPT !.calls = @ + 1,
                             !.task[t] = [IdleTask EXCEPT !.op = op, !.target = target]],
                 t, "top"))

\* RazerMouseBattery / RazerKeyboardBattery .getBatteryInfo(forceRefresh): the
\* service's getMouseBatteryLevel() / getKeyboardBatteryLevel() is called
\* without the flag
getBatteryInfo(s, t, op, forceRefresh) ==
    GetAllRazerDevices([s EXCEPT !.calls = @ + 1,
                                 !.task[t] = [IdleTask EXCEPT !.op = op]],
                       t, "top")

\* updateBatteryDisplay(ev, forceRefresh) up to its first await
updateBatteryDisplay(s, t, op, forceRefresh) ==
    getBatteryInfo([s EXCEPT !.ev.keyDown = forceRefresh], t, op, forceRefresh)

\* a key press: updateBatteryDisplay(ev, true)
onKeyDown(t, op) ==
    /\ runq = << >>
    /\ task[t].op \in {"idle", "done"}
    /\ Commit(updateBatteryDisplay(Cur, t, op, TRUE))

\* the host calls invalidateDeviceCache (invalidateCache, shutdown)
HostInvalidate ==
    /\ runq = << >>
    /\ Commit(invalidateDeviceCache(Cur))

\* Date.now() advances
Tick ==
    /\ runq = << >>
    /\ now < MaxClock
    /\ Commit([Cur EXCEPT !.now = @ + 1])

\* performDeviceEnumeration resolves: its awaiters are queued in order
ScanComplete(id, bus, threw) ==
    /\ runq = << >>
    /\ id \in DOMAIN scanWaiters
    /\ LET result == [scan |-> id, devs |-> performDeviceEnumeration(bus, threw)]
           ws == scanWaiters[id]
           InWs(t) == \E k \in 1..Len(ws) : ws[k] = t
       IN Commit([Cur EXCEPT
                     !.ev = [@ EXCEPT !.scanId = id,
                                      !.scanAll = IF threw THEN << >> ELSE bus],
                     !.scanWaiters = [x \in DOMAIN scanWaiters \ {id} |-> scanWaiters[x]],
                     !.scanRes = (id :> result.devs) @@ @,
                     !.scanFailed = IF threw THEN @ \cup {id} ELSE @ \ {id},
                     !.task = [t \in Tasks |->
                                 IF InWs(t)
                                 THEN [task[t] EXCEPT !.wait = "run", !.got = result]
                                 ELSE task[t]],
                     !.runq = ws])

\* getAllRazerDevices resumes with the awaited list: it fills the cache; the
\* caller that started the scan also clears the token (finally)
StoreAndReturn(s, t, clearToken) ==
    [s EXCEPT !.cachedDevices = s.task[t].got,
              !.deviceCacheTimestamp = s.now,
              !.deviceEnumerationPromise = IF clearToken THEN 0 ELSE @,
              !.task[t].pc = "after_gard",
              !.runq = Append(@, t)]

\* updateBatteryDisplay got the answer of a class query: on null it calls
\* invalidateCache
HostContinue(s, t) ==
    [(IF s.task[t].out = "null" THEN invalidateDeviceCache(s) ELSE s)
        EXCEPT !.task[t] = DoneTask]

\* the continuation at the head of the microtask queue runs
Resume(t) ==
    /\ runq # << >>
    /\ t = Head(runq)
    /\ LET s == [Cur EXCEPT !.runq = Tail(@)]
           tk == task[t]
       IN CASE tk.pc = "gard_cached" -> Commit(AfterGard(s, t, tk.got))
            [] tk.pc = "gard_start" -> Commit(StoreAndReturn(s, t, TRUE))
            [] tk.pc = "gard_join" -> Commit(StoreAndReturn(s, t, FALSE))
            [] tk.pc = "after_gard" -> Commit(AfterGard(s, t, tk.got))
            [] tk.pc = "host" -> Commit(HostContinue(s, t))

AtIO(t, pc) == runq = << >> /\ task[t].wait = "io" /\ task[t].pc = pc

Failing(e) == [kind |-> e, resp |-> NoResp]

\* sendRazerBatteryCommand, one action per awaited USB operation; Errs are the
\* errors the operation can fail with, Rs the responses the device can give
CmdOpen(t, Errs) ==
    /\ AtIO(t, "open")
    /\ \/ \E cfgNull \in BOOLEAN :
            Commit([Cur EXCEPT !.task[t].sess.opened = TRUE,
                               !.task[t].pc = IF cfgNull THEN "selcfg" ELSE "claim"])
       \/ \E e \in Errs : Commit(CommandExit(Cur, t, Failing(e)))

CmdSelectConfiguration(t, Errs) ==
    /\ AtIO(t, "selcfg")
    /\ \/ Commit([Cur EXCEPT !.task[t].pc = "claim"])
       \/ \E e \in Errs : Commit(CommandExit(Cur, t, Failing(e)))

CmdClaimInterface(t, Errs) ==
    /\ AtIO(t, "claim")
    /\ \/ Commit([Cur EXCEPT !.task[t].sess.claimed = TRUE, !.task[t].pc = "xout"])
       \/ \E e \in Errs : Commit(CommandExit(Cur, t, Failing(e)))

CmdTransferOut(t, Errs) ==
    /\ AtIO(t, "xout")
    /\ \/ Commit([Cur EXCEPT !.task[t].pc = "xin"])
       \/ \E e \in Errs :
            Commit([Cur EXCEPT !.task[t].pend = Failing(e), !.task[t].pc = "release"])

CmdTransferIn(t, Rs, Errs) ==
    /\ AtIO(t, "xin")
    /\ \/ \E r \in Rs :
            Commit([Cur EXCEPT !.task[t].pend = [kind |-> "resp", resp |-> r],
                               !.task[t].pc = "release"])
       \/ \E e \in Errs :
            Commit([Cur EXCEPT !.task[t].pend = Failing(e), !.task[t].pc = "release"])

\* finally: releaseInterface, then close; an error of either is swallowed
CmdReleaseInterface(t, Errs) ==
    /\ AtIO(t, "release")
    /\ \/ Commit([Cur EXCEPT !.task[t].sess.released = TRUE,
                             !.task[t].sess.closeCalled = TRUE,
                             !.task[t].pc = "close"])
       \/ \E e \in Errs : Commit(CommandExit(Cur, t, task[t].pend))

CmdClose(t, Errs) ==
    /\ AtIO(t, "close")
    /\ \/ Commit(CommandExit(Cur, t, task[t].pend))
       \/ \E e \in Errs : Commit(CommandExit(Cur, t, task[t].pend))

\* the decoder of getBatteryFromKeyboard is applied to the reply of the one
\* exchange of a keyboard query
DecodeKeyboardReply ==
    /\ codec.stage = "reply"
    /\ codec' = [codec EXCEPT !.stage = "decoded",
                              !.out = KeyboardDecode(codec.resp, codec.productId)]
    /\ UNCHANGED <<workerVars, svc, ipc, bat, lst, usb, act, clock>>

\* a mouse battery reply with status 0x02 is turned into a level
DecodeMouseLevel ==
    /\ codec.stage = "mouseReply"
    /\ codec' = [codec EXCEPT !.stage = "mouseDecoded",
                              !.level = MouseBatteryLevel(codec.resp)]
    /\ UNCHANGED <<workerVars, svc, ipc, bat, lst, usb, act, clock>>

\* usb-worker.cjs, getBatteryFromDevice for a mouse: the result built from
\* the battery reply and the charging reply
CjsMouseResult(batteryReply, chargingReply, productId) ==
    LET batteryLevel == IF batteryReply.byteLength >= 10
                        THEN ScaleBattery(batteryReply.bytes[10])
                        ELSE -1
        isCharging == chargingReply.byteLength >= 10 /\ chargingReply.bytes[10] = 1
    IN BatteryResult(batteryLevel, isCharging, productId)

\* usb-worker.cjs builds the result of a mouse query from its two replies
DecodeCjsMouse ==
    /\ codec.stage = "cjsReplies"
    /\ codec' = [codec EXCEPT !.stage = "cjsDecoded",
                              !.out = CjsMouseResult(codec.resp, codec.chargingResp,
                                                     codec.productId)]
    /\ UNCHANGED <<workerVars, svc, ipc, bat, lst, usb, act, clock>>

\* the request of a command is built for a device
BuildRequest ==
    /\ codec.stage = "request"
    /\ codec' = [codec EXCEPT !.stage = "built",
                              !.frame = createRazerRequest(codec.productId, codec.command)]
    /\ UNCHANGED <<workerVars, svc, ipc, bat, lst, usb, act, clock>>

\* a product id is looked up in the catalogue
LookupProduct ==
    /\ codec.stage = "lookup"
    /\ codec' = [codec EXCEPT !.stage = "looked", !.info = ProductLookup(codec.productId)]
    /\ UNCHANGED <<workerVars, svc, ipc, bat, lst, usb, act, clock>>

(***************************************************************************)
(* Specifications                                                          *)
(***************************************************************************)
\* Spec: the whole worker, host calls one after the other, every failure
\* class on every USB operation, invalidation by the host at any time
Next ==
    \/ calls < MaxCalls /\ Call(1, "list", 0)
    \/ \E target \in TargetIds \cup {0} : calls < MaxCalls /\ Call(1, "battery", target)
    \/ calls < MaxCalls /\ Call(1, "mouse", 0)
    \/ calls < MaxCalls /\ Call(1, "keyboard", 0)
    \/ \E op \in {"mouse", "keyboard"} : calls < MaxCalls /\ onKeyDown(1, op)
    \/ HostInvalidate
    \/ \E id \in DOMAIN scanWaiters : \E bus \in BusUniverse : \E threw \in BOOLEAN :
          ScanComplete(id, bus, threw)
    \/ \E t \in Tasks : Resume(t)
    \/ \E t \in Tasks : CmdOpen(t, ErrorKinds)
    \/ \E t \in Tasks : CmdSelectConfiguration(t, ErrorKinds)
    \/ \E t \in Tasks : CmdClaimInterface(t, ErrorKinds)
    \/ \E t \in Tasks : CmdTransferOut(t, ErrorKinds)
    \/ \E t \in Tasks : CmdTransferIn(t, Responses, ErrorKinds)
    \/ \E t \in Tasks : CmdReleaseInterface(t, ErrorKinds)
    \/ \E t \in Tasks : CmdClose(t, ErrorKinds)

Spec == Init /\ [][Next]_vars

\* SpecLive: the battery queries of the worker under every failure class, with
\* the assumption that a scan and every USB operation that was started
\* completes (with a result or an error) and that pending continuations run
CallLive ==
    \/ \E target \in TargetIds \cup {0} :
          calls < MaxLiveCalls /\ Call(1, "battery", target)
    \/ calls < MaxLiveCalls /\ Call(1, "mouse", 0)
    \/ calls < MaxLiveCalls /\ Call(1, "keyboard", 0)

ProgressLive ==
    \/ \E id \in DOMAIN scanWaiters : \E bus \in BusUniverse : \E threw \in BOOLEAN :
          ScanComplete(id, bus, threw)
    \/ \E t \in Tasks : Resume(t)
    \/ \E t \in Tasks : CmdOpen(t, ErrorKinds)
    \/ \E t \in Tasks : CmdSelectConfiguration(t, ErrorKinds)
    \/ \E t \in Tasks : CmdClaimInterface(t, ErrorKinds)
    \/ \E t \in Tasks : CmdTransferOut(t, ErrorKinds)
    \/ \E t \in Tasks : CmdTransferIn(t, Responses, ErrorKinds)
    \/ \E t \in Tasks : CmdReleaseInterface(t, ErrorKinds)
    \/ \E t \in Tasks : CmdClose(t, ErrorKinds)

NextLive == CallLive \/ ProgressLive

\* ENABLED <<ProgressLive>>_vars: a continuation is queued, a scan is in
\* flight, or a USB operation is awaited
StepPending ==
    \/ runq # << >>
    \/ DOMAIN scanWaiters # {}
    \/ \E t \in Tasks : task[t].wait = "io"

\* weak fairness of ProgressLive, WF_vars(ProgressLive), with its ENABLED
\* written as the state predicate StepPending
FairLive == []<>(~StepPending) \/ []<><<ProgressLive>>_vars

SpecLive == Init /\ [][NextLive]_vars /\ FairLive

\* SpecCache: the enumeration and cache manager under overlapping callers of
\* getAllRazerDevices, invalidation at any time, and a running clock
NextCache ==
    \/ \E t \in 1..MaxCallers : t = calls + 1 /\ Call(t, "list", 0)
    \/ HostInvalidate
    \/ Tick
    \/ \E id \in DOMAIN scanWaiters : \E bus \in BusUniverse : \E threw \in BOOLEAN :
          ScanComplete(id, bus, threw)
    \/ \E t \in Tasks : Resume(t)

SpecCache == Init /\ [][NextCache]_vars

\* SpecOverlap: two host calls that overlap (a periodic refresh and a key
\* press, an exact-id query and a first-of-class query); USB operations fail
\* with non-retryable errors only and the device answers with success
OverlapBus ==
    { << <<RAZER_VENDOR_ID, 125>>, <<RAZER_VENDOR_ID, 123>> >>,
      << <<1133, 123>>, <<RAZER_VENDOR_ID, 604>>, <<RAZER_VENDOR_ID, 4095>> >> }

NextOverlap ==
    \/ \E t \in Pair : t = calls + 1 /\ Call(t, "battery", 123)
    \/ \E t \in Pair : t = calls + 1 /\ Call(t, "mouse", 0)
    \/ \E t \in Pair : t = calls + 1 /\ Call(t, "keyboard", 0)
    \/ \E id \in DOMAIN scanWaiters : \E bus \in OverlapBus :
          ScanComplete(id, bus, FALSE)
    \/ \E t \in Pair : Resume(t)
    \/ \E t \in Pair : CmdOpen(t, {"other"})
    \/ \E t \in Pair : CmdSelectConfiguration(t, {"other"})
    \/ \E t \in Pair : CmdClaimInterface(t, {"other"})
    \/ \E t \in Pair : CmdTransferOut(t, {"other"})
    \/ \E t \in Pair : CmdTransferIn(t, {Resp(90, 2, 1)}, {"other"})
    \/ \E t \in Pair : CmdReleaseInterface(t, {"other"})
    \/ \E t \in Pair : CmdClose(t, {"other"})

SpecOverlap == Init /\ [][NextOverlap]_vars

\* SpecProtocol: one query at a time against one device, every failure class
\* on every USB operation and every reply of the bounded reply space
ProtocolBus ==
    { << <<RAZER_VENDOR_ID, 604>> >>,
      << <<RAZER_VENDOR_ID, 122>> >>,
      << <<RAZER_VENDOR_ID, 123>> >> }

\* replies with status 0x05 that carry values in other bytes than byte 9:
\* 80 in byte 8 before 128 in byte 9; 200 in byte 12 only; 50 in byte 7 only
ViperReplies ==
    { [Resp(90, 5, 128) EXCEPT !.bytes[9] = 80],
      [Resp(90, 5, 0) EXCEPT !.bytes[13] = 200],
      [Resp(90, 5, 0) EXCEPT !.bytes[8] = 50] }

ProtocolReplies ==
    {Resp(len, b0, b9) : len \in {9, 90}, b0 \in FormatBytes, b9 \in ProtocolBytes}
    \cup ViperReplies

NextProtocol ==
    \/ calls < MaxProtocolCalls /\ Call(1, "keyboard", 0)
    \/ calls < MaxProtocolCalls /\ Call(1, "mouse", 0)
    \/ calls < MaxProtocolCalls /\ Call(1, "battery", 122)
    \/ \E id \in DOMAIN scanWaiters : \E bus \in ProtocolBus :
          ScanComplete(id, bus, FALSE)
    \/ \E t \in Tasks : Resume(t)
    \/ \E t \in Tasks : CmdOpen(t, ErrorKinds)
    \/ \E t \in Tasks : CmdSelectConfiguration(t, ErrorKinds)
    \/ \E t \in Tasks : CmdClaimInterface(t, ErrorKinds)
    \/ \E t \in Tasks : CmdTransferOut(t, ErrorKinds)
    \/ \E t \in Tasks : CmdTransferIn(t, ProtocolReplies, ErrorKinds)
    \/ \E t \in Tasks : CmdReleaseInterface(t, ErrorKinds)
    \/ \E t \in Tasks : CmdClose(t, ErrorKinds)

SpecProtocol == Init /\ [][NextProtocol]_vars

\* SpecService: the child-process service under every answer of its worker
NextService ==
    \/ \E kind \in {"mouse", "keyboard"} : \E forceRefresh \in BOOLEAN :
          ServiceCall(kind, forceRefresh)
    \/ \E result \in WorkerReplies(svc.kind) : ServiceReply(result)
    \/ ServiceTimeout

SpecService == Init /\ [][NextService]_vars

\* SpecClient: the persistent-worker client; the worker answers with any message
\* id, in any order, any number of times
NextClient ==
    \/ \E command \in ClientCommands : SendMessage(command)
    \/ \E id \in 0..MaxRequests : \E success \in BOOLEAN : OnMessage(id, success)
    \/ \E id \in 1..MaxRequests : OnTimeout(id)

SpecClient == Init /\ [][NextClient]_vars

\* SpecLifecycle: the client with the life of its workers: a worker exits or
\* errors at any time, a listening worker sends any message, shutdown() is
\* called at any time and its timer fires later; every armed timer of
\* sendMessage fires unless it is cleared
NextLifecycle ==
    \/ Len(ipc.requests) < MaxLifeRequests /\ SendMessage("battery")
    \/ \E id \in 0..MaxLifeRequests : \E success \in BOOLEAN :
          /\ \E w \in DOMAIN ipc.workers : ipc.workers[w].listeners
          /\ OnMessage(id, success)
    \/ \E id \in 1..MaxLifeRequests : OnTimeout(id)
    \/ \E w \in 1..MaxWorkers : WorkerExit(w)
    \/ \E w \in 1..MaxWorkers : WorkerError(w)
    \/ Shutdown
    \/ \E k \in 1..MaxWorkers : ForceKill(k)

\* SpecBattery: calls of getBatteryInfo and getBatteryInfoForDeviceType that
\* overlap or follow each other, key presses that invalidate, every answer of
\* the worker, and time passing in steps of five seconds
NextBattery ==
    \/ \E c \in 1..MaxBatCalls : \E target \in {122, 123} : BatCall(c, "info", target)
    \/ \E c \in 1..MaxBatCalls : BatCall(c, "type", 0)
    \/ \E c \in 1..MaxBatCalls : \E threw \in BOOLEAN :
          \E devices \in { << >>, <<122>>, <<123>>, <<123, 122>> } :
             BatListReply(c, devices, threw)
    \/ \E c \in 1..MaxBatCalls : \E found, threw \in BOOLEAN : BatBatteryReply(c, found, threw)
    \/ BatInvalidate
    \/ HostTick(ClockStep, MaxBatClock)

SpecBattery == Init /\ [][NextBattery]_vars

\* SpecList: callers of getAvailableDevices of the caching variant, list
\* requests that are answered or fail no later than their timeout,
\* invalidations, and time passing in steps of five seconds
NextList ==
    \/ \E c \in 1..MaxListCalls : GetAvailableDevices(c)
    \/ \E p \in 1..MaxListCalls : \E ok \in BOOLEAN : ListSettled(p, ok)
    \/ InvalidateList
    \/ /\ \A p \in DOMAIN lst.enumerations :
             lst.enumerations[p].state = "pending"
                => clock - lst.enumerations[p].now < LIST_TIMEOUT
       /\ HostTick(ClockStep, MaxListClock)

SpecList == Init /\ [][NextList]_vars

\* SpecUsb: requests to the spawn-per-request variant that overlap or follow
\* each other; a worker ends within its timeout of a few seconds, and time
\* passes in steps of two and a half minutes while no worker is running
NextUsb ==
    \/ \E c \in 1..MaxUsbCalls : \E kind \in {"list", "battery"} : UsbRequest(c, kind)
    \/ \E c \in 1..MaxUsbCalls : \E ok \in BOOLEAN : DirectResult(c, ok)
    \/ /\ \A c \in 1..MaxUsbCalls : usb.call[c].pc # "direct"
       /\ HostTick(UsbClockStep, MaxUsbClock)

SpecUsb == Init /\ [][NextUsb]_vars

\* SpecAction: the buttons of one action appear and disappear in any order,
\* and each initial display update returns at any time
NextAction ==
    \/ \E b \in 1..MaxButtons : WillAppear(b)
    \/ \E i \in 1..MaxAppear : DisplayUpdated(i)
    \/ \E b \in 1..MaxButtons : WillDisappear(b)

SpecAction == Init /\ [][NextAction]_vars

SpecLifecycle ==
    Init /\ [][NextLifecycle]_vars /\ \A id \in 1..MaxLifeRequests : WF_vars(OnTimeout(id))

\* SpecCodec: the pure parts of the worker (the keyboard decoder, the mouse
\* level, the request builder, the catalogue lookup), each on every input of
\* a bounded input space
MouseTargets == {122, 123}

\* 0x80 (battery level) and 0x84 (charging status)
Commands == {128, 132}

\* ids that are looked up: every catalogued id and some that are not
ProbeIds ==
    DOMAIN RAZER_MICE \cup DOMAIN RAZER_KEYBOARDS \cup {0, 99, 121, 206, 541, 4095, 65535}

CodecReplies ==
    {Resp(len, b0, b9) : len \in ReplyLengths, b0 \in FormatBytes, b9 \in 0..MaxByte}

InitCodec ==
    /\ cachedDevices = NoList
    /\ deviceCacheTimestamp = 0
    /\ deviceEnumerationPromise = 0
    /\ now = 1
    /\ scanWaiters = << >>
    /\ scanRes = << >>
    /\ scanFailed = {}
    /\ task = [t \in Tasks |-> IdleTask]
    /\ runq = << >>
    /\ calls = 0
    /\ epochScans = 0
    /\ epochFirst = 0
    /\ invPending = FALSE
    /\ ev = NoEv
    /\ svc = IdleService
    /\ ipc = IdleClient
    /\ bat = IdleBattery
    /\ lst = IdleList
    /\ usb = IdleUsb
    /\ act = IdleAction
    /\ clock = ClockStep
    /\ \/ \E productId \in WirelessKeyboards : \E resp \in CodecReplies :
             codec = [NoCodec EXCEPT !.stage = "reply", !.productId = productId,
                                     !.resp = resp]
       \/ \E productId \in MouseTargets : \E b9 \in 0..MaxByte :
             codec = [NoCodec EXCEPT !.stage = "mouseReply", !.productId = productId,
                                     !.resp = Resp(90, 2, b9)]
       \/ \E productId \in DOMAIN RAZER_PRODUCTS : \E command \in Commands :
             codec = [NoCodec EXCEPT !.stage = "request", !.productId = productId,
                                     !.command = command]
       \/ \E productId \in ProbeIds :
             codec = [NoCodec EXCEPT !.stage = "lookup", !.productId = productId]
       \/ \E productId \in MouseTargets : \E len, clen \in {9, 90} :
             \E b9 \in {0, 128, MaxByte} : \E c9 \in {0, 1, 2} :
                codec = [NoCodec EXCEPT !.stage = "cjsReplies", !.productId = productId,
                                        !.resp = Resp(len, 2, b9),
                                        !.chargingResp = Resp(clen, 2, c9)]

NextCodec ==
    \/ DecodeKeyboardReply
    \/ DecodeMouseLevel
    \/ BuildRequest
    \/ LookupProduct
    \/ DecodeCjsMouse

SpecCodec == InitCodec /\ [][NextCodec]_vars

(***************************************************************************)
(* Properties                                                              *)
(***************************************************************************)
\* C1: callers of getAllRazerDevices that arrive while the cache is
\* unpopulated, with no invalidation since, share one scan: at most one scan
\* is started, each of them awaits it, and each receives its result.
C1_ConcurrentCallersShareOneScan ==
    /\ epochScans <= 1
    /\ \A t \in Tasks :
         (InGetAll(task[t]) /\ task[t].pc # "gard_cached" /\ ~task[t].stale) =>
            /\ task[t].await = epochFirst
            /\ task[t].wait = "run" =>
                  /\ task[t].got.scan = epochFirst
                  /\ task[t].got.devs = scanRes[epochFirst]

\* two callers have been resumed with the result of the one scan
C1_Witness ==
    \E t1, t2 \in Tasks :
        /\ t1 # t2
        /\ epochScans = 1
        /\ \A t \in {t1, t2} :
              /\ task[t].pc \in {"gard_start", "gard_join"}
              /\ task[t].wait = "run"
              /\ ~task[t].stale
              /\ task[t].got.scan = epochFirst
              /\ Len(task[t].got.devs) > 0

\* C2: at most one performDeviceEnumeration is in flight, under every
\* interleaving of callers and invalidations.
C2_AtMostOneScanInFlight == Cardinality(DOMAIN scanWaiters) <= 1

\* a call of getBatteryLevel(targetProductId) with an exact product id
ExactIdCall(tk) == tk.op = "battery" /\ tk.target # 0

\* C3: a getBatteryLevel(targetProductId) call invalidates and re-enumerates
\* at most once and queries the device at most twice (the attempt and one
\* retry), and when the retry fails too it ends in null.
C3_ExactIdRetriesOnce ==
    /\ \A t \in Tasks :
         ExactIdCall(task[t]) => task[t].nInv <= 1 /\ task[t].nQ <= 2
    /\ (ev.retT # 0 /\ ev.retOp = "battery" /\ ev.retTarget # 0
           /\ ev.retNQ >= 2 /\ ev.retKind # "result") => ev.retKind = "null"

\* C4: getBatteryLevel, getMouseBatteryLevel and getKeyboardBatteryLevel
\* complete with a BatteryResult or null and never by throwing.
C4_QueriesNeverThrow ==
    (ev.retT # 0 /\ ev.retOp \in {"battery", "mouse", "keyboard"}) =>
        ev.retKind \in {"result", "null"}

\* C5: when a query for exact id 0x007A (0x007B) hits a retryable failure and
\* the fresh scan holds 0x007B (0x007A) but not the id asked for, the retry
\* goes to the paired id.
C5_RetryGoesToPairedIdentity ==
    \A a, b \in {122, 123} :
        (/\ a # b
         /\ ev.retryTarget = a
         /\ ev.retryOrig = a
         /\ (\E k \in 1..Len(ev.retryFresh) : ev.retryFresh[k] = b)
         /\ ~(\E k \in 1..Len(ev.retryFresh) : ev.retryFresh[k] = a))
        => ev.retryChosen = b

\* C6: whenever sendRazerBatteryCommand ends after device.open() succeeded,
\* close() has been called, and a claimed interface has been released.
C6_SessionAlwaysClosed ==
    (ev.cmdExit /\ ev.cmdSess.opened) =>
        /\ ev.cmdSess.closeCalled
        /\ ev.cmdSess.claimed => ev.cmdSess.released

\* task t has the device open in sendRazerBatteryCommand
InSession(t) == task[t].wait = "io" /\ task[t].sess.opened

\* C7: no two protocol exchanges are active on the same device handle.
C7_ExclusiveSessions ==
    \A t1, t2 \in Tasks :
        (t1 # t2 /\ InSession(t1) /\ InSession(t2)) => task[t1].qdev # task[t2].qdev

\* C8: the cache is either unpopulated (list and timestamp both null) or
\* holds, with a timestamp, the complete list of one finished scan; a caller
\* served from the cache receives such a list.
C8_CacheAllOrNothing ==
    /\ (cachedDevices.scan = 0) <=> (deviceCacheTimestamp = 0)
    /\ cachedDevices.scan = 0 => cachedDevices.devs = << >>
    /\ cachedDevices.scan # 0 =>
          /\ cachedDevices.scan \in DOMAIN scanRes
          /\ cachedDevices.devs = scanRes[cachedDevices.scan]
    /\ \A t \in Tasks :
          task[t].pc = "gard_cached" =>
              /\ task[t].got.scan \in DOMAIN scanRes
              /\ task[t].got.devs = scanRes[task[t].got.scan]

\* after a clock tick, a caller is served a two-device list from the cache
C8_Witness ==
    /\ cachedDevices.scan # 0
    /\ deviceCacheTimestamp > 1
    /\ \E t \in Tasks :
          /\ task[t].pc = "gard_cached"
          /\ Len(task[t].got.devs) = 2
          /\ task[t].got = cachedDevices

\* C9: a getAllRazerDevices call made while the cache is populated returns
\* the cached list and starts no scan, whatever the clock says; the first
\* call after an invalidation starts a scan.
C9_CacheServesUntilInvalidated ==
    /\ (ev.gard # "none" /\ ev.gardPop) => ev.gard = "cached"
    /\ (ev.gard # "none" /\ ev.gardFirst) => ev.gard = "started"

\* C10: when getBatteryLevel, getMouseBatteryLevel or getKeyboardBatteryLevel
\* returns null, the cache is unpopulated at that moment.
C10_NullLeavesCacheUnpopulated ==
    (ev.retT # 0 /\ ev.retOp \in {"battery", "mouse", "keyboard"}
        /\ ev.retKind = "null") => ~ev.retCachePop

\* C11: the query made by a key press (forceRefresh = true) is preceded by an
\* invalidation, so its getAllRazerDevices call starts a scan and is never
\* served a list cached before the key press.
C11_KeyPressStartsFreshScan ==
    (ev.keyDown /\ ev.gard # "none") => ev.gard = "started"

\* a first-of-class query: getMouseBatteryLevel, getKeyboardBatteryLevel, or
\* getBatteryLevel without a target id
FirstOfClassCall(tk) == tk.op \in {"mouse", "keyboard"} \/ (tk.op = "battery" /\ tk.target = 0)

\* C12: one first-of-class query invalidates and re-enumerates at most once,
\* however many retryable transport failures it meets.
C12_ClassQueryReenumeratesOnce ==
    \A t \in Tasks : FirstOfClassCall(task[t]) => task[t].nInv <= 1

\* a class query of the action layer: getMouseBatteryLevel, getKeyboardBatteryLevel
ClassQuery(op) == op \in {"mouse", "keyboard"}

\* the class query of task t moves its loop index
LoopMoves(t) ==
    /\ ClassQuery(task[t].op)
    /\ task'[t].op = task[t].op
    /\ task'[t].pc # "host"
    /\ task'[t].i # task[t].i

ChargingNoLevel(result) ==
    result.kind = "result" /\ result.batteryLevel = -1 /\ result.isCharging

\* C14: when the worker answers with a reading that has no level and is
\* charging, the service sends no further query and no invalidation after
\* it and returns it unchanged, and the title set is the charging title,
\* never "No Data" or "No Device".
C14_ChargingReadingIsData ==
    \A k \in 1..Len(svc.replies) :
        ChargingNoLevel(svc.replies[k]) =>
            /\ k = Len(svc.replies)
            /\ svc.sent = k
            /\ svc.pc = "shown"
            /\ svc.info = svc.replies[k]
            /\ svc.invAfterReply = 0
            /\ svc.title = Title("formatted", 0, TRUE)

\* a retried keyboard query is answered with a charging reading
C14_Witness ==
    /\ svc.pc = "shown"
    /\ svc.kind = "keyboard"
    /\ Len(svc.replies) = 2
    /\ ChargingNoLevel(svc.replies[2])
    /\ svc.info = BatteryResult(-1, TRUE, 604)

\* C15: a call of invalidateDeviceCache leaves cache, timestamp and token
\* null; a second call right after it, or a call on an already cleared state,
\* changes nothing: invalidating twice gives the state of invalidating once.
C15_InvalidateIdempotent ==
    [][HostInvalidate =>
         LET once == invalidateDeviceCache(Cur)
             twice == invalidateDeviceCache(once)
         IN /\ Cleared(once)
            /\ twice = once
            /\ cachedDevices' = once.cachedDevices
            /\ deviceCacheTimestamp' = once.deviceCacheTimestamp
            /\ deviceEnumerationPromise' = once.deviceEnumerationPromise
            /\ Cleared(Cur) =>
                  UNCHANGED <<cachedDevices, deviceCacheTimestamp,
                              deviceEnumerationPromise, now, scanWaiters, runq>>]_vars

\* invalidateDeviceCache has been called while the cache was still
\* unpopulated: the one caller so far is waiting for its scan, and no
\* getAllRazerDevices call has been made since the invalidation
C15_Witness ==
    /\ invPending
    /\ calls = 1
    /\ \E t \in Tasks : task[t].pc = "gard_start" /\ task[t].wait = "scan" /\ task[t].stale
    /\ cachedDevices = NoList /\ deviceCacheTimestamp = 0 /\ deviceEnumerationPromise = 0

\* the battery exchange of task t ends in this step with a response shorter
\* than 10 bytes
MalformedExit(t) ==
    /\ ev'.cmdExit /\ ev'.cmdT = t
    /\ ev'.cmdPhase \in {"kb", "battery"}
    /\ ev'.cmdOut = "resp" /\ ev'.cmdShort

\* C16: only an error classified NoDevice / NotFound / open error, thrown by
\* the battery exchange, leads to an invalidation and to a re-enumeration
\* from inside a query; a response shorter than 10 bytes ends the device's
\* query with null, with no invalidation, no re-enumeration and no second
\* query of that device.
C16_OnlyUsbErrorsReenumerate ==
    [][\A t \in Tasks :
          /\ (ev'.cmdExit /\ ev'.cmdT = t /\ task'[t].nInv > task[t].nInv) =>
                 (ev'.cmdOut = "usb" /\ ev'.cmdPhase \in {"kb", "battery"})
          /\ (calls' = calls /\ ev'.gard # "none") =>
                 (ev'.cmdExit /\ ev'.cmdOut = "usb")
          /\ MalformedExit(t) =>
                 /\ ev'.gbfdT = t /\ ev'.gbfd = "null"
                 /\ ev'.gard = "none"
                 /\ task'[t].nInv <= task[t].nInv
                 /\ task'[t].wait = "io" => task'[t].qdev # task[t].qdev]_vars

\* an exact-id query whose first attempt failed with a NoDevice error was
\* retried after one invalidation, and the retry got a short response: null
C16_Witness ==
    /\ ev.cmdExit /\ ev.cmdPhase = "battery"
    /\ ev.cmdOut = "resp" /\ ev.cmdShort
    /\ ev.retT # 0 /\ ev.retTarget # 0 /\ ev.retKind = "null"
    /\ ev.retNInv = 1 /\ ev.retNQ = 2

\* C17: a keyboard reply of at least 10 bytes whose byte 0 is 0x04 decodes to
\* batteryLevel = null and isCharging = true, whatever byte 9 holds.
C17_KeyboardFormat04IsCharging ==
    (codec.stage = "decoded" /\ codec.resp.byteLength >= 10 /\ codec.resp.bytes[1] = 4) =>
        /\ codec.out.kind = "result"
        /\ codec.out.batteryLevel = -1
        /\ codec.out.isCharging
        /\ codec.out.productId = codec.productId

\* a 0x04 reply whose byte 9 holds a full battery has been decoded
C17_Witness ==
    /\ codec.stage = "decoded"
    /\ codec.resp.byteLength = 90
    /\ codec.resp.bytes[1] = 4
    /\ codec.resp.bytes[10] = 255
    /\ codec.out = BatteryResult(-1, TRUE, codec.productId)

\* the exchange of task t ends in this step; what it ended with is o
ExchangeEnds(t, phase) ==
    /\ task[t].wait = "io" /\ task[t].phase = phase
    /\ ev'.cmdExit /\ ev'.cmdT = t

\* the exchange of task t ends in this step with a well-formed reply
ReplyEnds(t, phase) ==
    /\ ExchangeEnds(t, phase)
    /\ ev'.cmdOut = "resp"
    /\ task[t].pend.kind = "resp"
    /\ task[t].pend.resp.byteLength >= 10

\* after this step task t is still in the query it was in, in a new exchange
SameQueryGoesOn(t) ==
    /\ task'[t].wait = "io"
    /\ task'[t].op = task[t].op
    /\ task'[t].nQ = task[t].nQ

\* C18: every exchange of a keyboard query sends command 0x80 on interface
\* index 2; when it ends, the query ends with it (one exchange, no 0x84); a
\* reply whose format byte is not 0x04 gives byte 9 scaled, not charging.
C18_KeyboardSingleExchange ==
    /\ [](\A t \in Tasks :
            (task[t].wait = "io" /\ isKeyboard(task[t].qdev)) =>
                /\ task[t].phase = "kb"
                /\ task[t].command = 128
                /\ task[t].index = 2)
    /\ [][\A t \in Tasks :
            /\ ExchangeEnds(t, "kb") => ~SameQueryGoesOn(t)
            /\ (ReplyEnds(t, "kb") /\ task[t].pend.resp.bytes[1] # 4) =>
                  /\ ev'.gbfd = "result"
                  /\ ev'.retT = t
                  /\ ev'.retLevel = ScaleBattery(task[t].pend.resp.bytes[10])
                  /\ ~ev'.retCharging
                  /\ ev'.retPid = task[t].qdev.productId]_vars

\* a keyboard query returns 50.2% from a reply with format byte 0x02
C18_Witness ==
    /\ ev.retOp = "keyboard"
    /\ ev.retKind = "result"
    /\ ev.retPid = 604
    /\ ev.retLevel = 502
    /\ ~ev.retCharging
    /\ ev.retNQ = 1

\* the charging request of task t ends in this step without a usable answer:
\* a thrown error, a short reply, or a status other than 0x02
ChargingRequestFails(t) ==
    /\ ExchangeEnds(t, "charging")
    /\ \/ ev'.cmdOut # "resp"
       \/ task[t].pend.resp.byteLength < 10
       \/ task[t].pend.resp.bytes[1] # 2

\* C19: the battery request of a mouse query that is answered with status
\* 0x02 fixes the level as byte 9 scaled and is followed by the charging
\* request; when that request fails, the query still yields a reading, with
\* the level decoded before and isCharging = false.
C19_ChargingFailureKeepsLevel ==
    [][\A t \in Tasks :
          /\ (ReplyEnds(t, "battery") /\ task[t].pend.resp.bytes[1] = 2) =>
                /\ SameQueryGoesOn(t)
                /\ task'[t].phase = "charging" /\ task'[t].command = 132
                /\ task'[t].level = ScaleBattery(task[t].pend.resp.bytes[10])
          /\ ChargingRequestFails(t) =>
                /\ ev'.gbfdT = t /\ ev'.gbfd = "result"
                /\ ev'.retT = t /\ ev'.retKind = "result"
                /\ ev'.retLevel = task[t].level
                /\ ~ev'.retCharging
                /\ ev'.retPid = task[t].qdev.productId]_vars

\* a mouse query returns 50.2%, not charging, after its charging request was
\* stopped by a NoDevice error
C19_Witness ==
    /\ ev.cmdExit /\ ev.cmdPhase = "charging" /\ ev.cmdOut = "usb"
    /\ ev.retOp = "mouse" /\ ev.retKind = "result"
    /\ ev.retLevel = 502 /\ ~ev.retCharging
    /\ ev.retNInv = 0

\* C20: the second send of the battery command happens only after a first
\* reply with status 0x01; the retry's reply with status 0x02 fixes the level
\* as its byte 9 scaled and leads to the charging request; any other end of
\* the retry ends the query with null; no battery command follows the retry.
C20_BatteryCommandRetriedOnce ==
    [][\A t \in Tasks :
          /\ (ev'.cmdExit /\ ev'.cmdT = t /\ SameQueryGoesOn(t)
                /\ task'[t].command = 128) =>
                /\ ReplyEnds(t, "battery")
                /\ task[t].pend.resp.bytes[1] = 1
                /\ task'[t].phase = "retry"
          /\ (ReplyEnds(t, "retry") /\ task[t].pend.resp.bytes[1] = 2) =>
                /\ SameQueryGoesOn(t)
                /\ task'[t].phase = "charging"
                /\ task'[t].level = ScaleBattery(task[t].pend.resp.bytes[10])
          /\ (ExchangeEnds(t, "retry")
                /\ ~(ReplyEnds(t, "retry") /\ task[t].pend.resp.bytes[1] = 2)) =>
                /\ ~SameQueryGoesOn(t)
                /\ ev'.gbfdT = t /\ ev'.gbfd = "null"
                /\ task'[t].nInv <= task[t].nInv
          /\ (ExchangeEnds(t, "charging") /\ task[t].command = 132) =>
                (ev'.retT = t /\ ev'.retLevel = task[t].level)]_vars

\* the retry of the battery command has just been answered with status 0x02
\* and byte 9 = 255: the level is 100% and the charging request is under way
C20_Witness ==
    /\ ev.cmdExit /\ ev.cmdPhase = "retry" /\ ev.cmdOut = "resp" /\ ~ev.cmdShort
    /\ \E t \in Tasks :
          /\ ev.cmdT = t
          /\ task[t].op = "mouse"
          /\ task[t].phase = "charging" /\ task[t].command = 132
          /\ task[t].level = 1000
          /\ task[t].nQ = 1

\* XOR of bytes from .. to of a frame: bit k is the parity of the number of
\* those bytes that have bit k set
XorOfBytes(frame, from, to) ==
    LET parity(k) == Cardinality({j \in from..to : Bit(frame[j + 1], k) = 1}) % 2
        x(k) == parity(k) * (2 ^ k)
    IN x(0) + x(1) + x(2) + x(3) + x(4) + x(5) + x(6) + x(7)

\* C21: for every catalogued device and each of the commands 0x80 and 0x84
\* the request is a frame of 90 bytes: bytes 0..7 are
\* [0x00, transaction tag, 0, 0, 0, 0x02, 0x07, command], bytes 8..87 are zero,
\* byte 88 is the XOR of bytes 2..87 and byte 89 is zero.
C21_RequestFrameBitExact ==
    codec.stage = "built" =>
        LET fullMsg == codec.frame
            tag == RAZER_PRODUCTS[codec.productId].transactionId
        IN /\ Len(fullMsg) = 90
           /\ SubSeq(fullMsg, 1, 8) = <<0, tag, 0, 0, 0, 2, 7, codec.command>>
           /\ \A k \in 8..87 : fullMsg[k + 1] = 0
           /\ fullMsg[89] = XorOfBytes(fullMsg, 2, 87)
           /\ fullMsg[90] = 0

\* the charging request of the wireless BlackWidow V3 Pro (tag 0x9f): the
\* checksum is 0x02 ^ 0x07 ^ 0x84 = 0x81
C21_Witness ==
    /\ codec.stage = "built"
    /\ codec.productId = 604
    /\ codec.command = 132
    /\ codec.frame[2] = 159
    /\ codec.frame[89] = 129

\* C22: a mouse reply with status 0x02 and raw byte 9 = b gives the level
\* b * 100 / 255 rounded to one decimal, always within 0..100: 255 gives 100.0,
\* 0 gives 0.0 and 128 gives 50.2 (levels are in tenths of a percent).
C22_MouseLevelScaled ==
    codec.stage = "mouseDecoded" =>
        LET b == codec.resp.bytes[10]
            level == codec.level
            diff == level * 255 - b * 1000
        IN /\ level \in 0..1000
           /\ 2 * diff <= 255 /\ 2 * diff >= -255
           /\ (b = 255) => (level = 1000)
           /\ (b = 0) => (level = 0)
           /\ (b = 128) => (level = 502)

C22_Witness ==
    /\ codec.stage = "mouseDecoded"
    /\ codec.resp.bytes[1] = 2
    /\ codec.resp.bytes[10] = 128
    /\ codec.level = 502

\* C24: the catalogue lookup is total: every id of RAZER_MICE or
\* RAZER_KEYBOARDS gives a descriptor with a non-empty name, a transaction tag
\* and a boolean wireless flag (the descriptor of its table), every other id
\* gives nothing, and no id is both a mouse and a keyboard.
C24_CatalogueLookupTotal ==
    codec.stage = "looked" =>
        LET id == codec.productId
            mouse == id \in DOMAIN RAZER_MICE
            keyboard == id \in DOMAIN RAZER_KEYBOARDS
            r == codec.info
        IN /\ ~(mouse /\ keyboard)
           /\ mouse => (r.found /\ r.info = RAZER_MICE[id])
           /\ keyboard => (r.found /\ r.info = RAZER_KEYBOARDS[id])
           /\ (mouse \/ keyboard) =>
                 /\ r.info.name # ""
                 /\ r.info.transactionId \in 0..MaxByte
                 /\ r.info.hasWireless \in BOOLEAN
           /\ ~(mouse \/ keyboard) => ~r.found

C24_Witness ==
    /\ codec.stage = "looked"
    /\ codec.productId = 604
    /\ codec.info.found
    /\ codec.info.info.name = "Razer BlackWidow V3 Pro (Wireless)"
    /\ codec.info.info.transactionId = 159
    /\ codec.info.info.hasWireless

\* C23: the list of a scan, and so the cached list, holds exactly the scanned
\* devices whose vendor is 0x1532 and whose product id is catalogued, in bus
\* order, each with the isKeyboard and hasWireless of its catalogue entry; a
\* device of another vendor or with an uncatalogued id is never in it.
C23_CacheHoldsCataloguedDevices ==
    LET Catalogued(d) ==
            /\ d[1] = 5426
            /\ (d[2] \in DOMAIN RAZER_MICE \/ d[2] \in DOMAIN RAZER_KEYBOARDS)
        expected == SelectSeq(ev.scanAll, Catalogued)
        FlagsRight(dev) ==
            LET id == dev.productId
            IN IF id \in DOMAIN RAZER_KEYBOARDS
               THEN isKeyboard(dev) /\ hasWireless(dev) = RAZER_KEYBOARDS[id].hasWireless
               ELSE /\ id \in DOMAIN RAZER_MICE
                    /\ ~isKeyboard(dev)
                    /\ hasWireless(dev) = RAZER_MICE[id].hasWireless
    IN /\ ev.scanId # 0 =>
             /\ ev.scanId \in DOMAIN scanRes
             /\ Len(scanRes[ev.scanId]) = Len(expected)
             /\ \A k \in 1..Len(expected) : scanRes[ev.scanId][k] = expected[k][2]
       /\ cachedDevices.scan # 0 =>
             /\ cachedDevices.scan \in DOMAIN scanRes
             /\ cachedDevices.devs = scanRes[cachedDevices.scan]
             /\ \A k \in 1..Len(cachedDevices.devs) : FlagsRight(DeviceOf(cachedDevices, k))

\* the cache holds the list of the bus that also carries a foreign device
\* with a catalogued product id and a Razer device with an uncatalogued id
C23_Witness ==
    /\ cachedDevices.scan # 0
    /\ cachedDevices.devs = <<604, 125, 123>>
    /\ deviceCacheTimestamp # 0

\* C25: every request of the persistent-worker client gets an id no earlier
\* request had; a message of the worker with id k settles the pending request
\* with id k and no other request; with several requests outstanding each is
\* settled by the message that carries its own id, in whatever order the
\* messages arrive.
C25_ResponsesSettleOwnRequest ==
    /\ [](/\ \A i, j \in 1..Len(ipc.requests) :
                i # j => ipc.requests[i].id # ipc.requests[j].id
          /\ \A n \in 1..Len(ipc.requests) :
                ipc.requests[n].state \in {"resolved", "rejected"} =>
                    ipc.requests[n].by = ipc.requests[n].id
          /\ \A k \in DOMAIN ipc.pendingMessages :
                /\ ipc.requests[ipc.pendingMessages[k]].id = k
                /\ ipc.requests[ipc.pendingMessages[k]].state = "pending")
    /\ [][/\ Len(ipc'.requests) > Len(ipc.requests) =>
                \A n \in 1..Len(ipc.requests) :
                    ipc.requests[n].id # ipc'.requests[Len(ipc'.requests)].id
          /\ ipc'.last.kind = "message" =>
                \A n \in 1..Len(ipc.requests) :
                    (ipc'.requests[n] # ipc.requests[n])
                    <=> (ipc.requests[n].id = ipc'.last.id
                         /\ ipc.requests[n].state = "pending")]_vars

\* three requests are outstanding; the answers to the third and the second
\* have arrived, in that order, and the first is still pending
C25_Witness ==
    /\ Len(ipc.requests) = 3
    /\ ipc.requests[3].state = "resolved" /\ ipc.requests[3].by = 3
    /\ ipc.requests[2].state = "rejected" /\ ipc.requests[2].by = 2
    /\ ipc.requests[1].state = "pending"
    /\ ipc.last = [kind |-> "message", id |-> 2]
    /\ DOMAIN ipc.pendingMessages = {1}

\* the battery command of task t ends with a reply of at least 10 bytes
BatteryReplyEnds(t) ==
    /\ task[t].phase = "battery"
    /\ task[t].pend.kind = "resp"
    /\ task[t].pend.resp.byteLength >= 10
    /\ ev'.cmdExit /\ ev'.cmdT = t /\ ev'.cmdPhase = "battery"

\* the query of task t ends with what the scan of bytes 8..15 of its reply
\* gives: the first nonzero value v as the level (v if v <= 100, else the tenth
\* nearest to v * 100 / 255), charging; or no data when all of them are zero
EndsWithScan(t) ==
    LET bytes == task[t].pend.resp.bytes
        nonzero == {k \in 8..15 : k + 1 <= Len(bytes) /\ bytes[k + 1] # 0}
        first == CHOOSE k \in nonzero : \A j \in nonzero : k <= j
        v == bytes[first + 1]
    IN IF nonzero = {}
       THEN ev'.gbfdT = t /\ ev'.gbfd = "null"
       ELSE /\ ev'.retT = t /\ ev'.retKind = "result"
            /\ ev'.retPid = task[t].qdev.productId
            /\ ev'.retCharging
            /\ IF v <= 100 THEN ev'.retLevel = v * 10
               ELSE /\ 2 * (ev'.retLevel * 255 - v * 1000) <= 255
                    /\ 2 * (ev'.retLevel * 255 - v * 1000) >= -255

\* C26 as stated: for product 0x007A a battery reply with any non-success
\* status (other than the transient 0x01, which is retried first) is scanned
\* over bytes 8..15 for the first nonzero value, returned as the level with
\* isCharging = true; for any other product such a reply gives no data.
C26_ViperFallbackOnAnyFailure ==
    [][\A t \in Tasks :
          (BatteryReplyEnds(t) /\ task[t].pend.resp.bytes[1] \notin {1, 2}) =>
              IF task[t].qdev.productId = 122
              THEN EndsWithScan(t)
              ELSE ev'.gbfdT = t /\ ev'.gbfd = "null"]_vars

\* C26, amended: the scan runs only for product 0x007A and only when the
\* status is 0x05; a reply with any other non-success status, or to any other
\* product, gives no data (after the one retry when the status is 0x01).
C26_ViperFallbackOnStatus05 ==
    [][\A t \in Tasks :
          /\ (BatteryReplyEnds(t) /\ task[t].pend.resp.bytes[1] \notin {1, 2}) =>
                IF task[t].qdev.productId = 122 /\ task[t].pend.resp.bytes[1] = 5
                THEN EndsWithScan(t)
                ELSE ev'.gbfdT = t /\ ev'.gbfd = "null"
          /\ (task[t].phase = "retry" /\ ev'.cmdExit /\ ev'.cmdT = t
              /\ task'[t].phase # "charging") =>
                (ev'.gbfdT = t /\ ev'.gbfd = "null")]_vars

\* the wired Viper Ultimate answered 05 .. 80 (byte 8) 128 (byte 9): the
\* query returns 80.0 %, charging
C26_Witness ==
    /\ ev.cmdExit /\ ev.cmdPhase = "battery"
    /\ ev.retKind = "result"
    /\ ev.retPid = 122
    /\ ev.retLevel = 800
    /\ ev.retCharging

\* getAllRazerDevices of task t resumes with the list of a scan it began to
\* await before an invalidation
StaleScanResumes(t) ==
    /\ task[t].stale
    /\ task[t].pc \in {"gard_start", "gard_join"}
    /\ task[t].wait = "run"
    /\ task'[t].pc = "after_gard"

\* C27: when invalidateDeviceCache() is called while a scan is in flight, the
\* result of that scan is not stored into the cache afterwards (so no call
\* started after the invalidation is served it), and its completion does not
\* clear the in-flight token of a newer scan.
C27_StaleScanIsDiscarded ==
    [][\A t \in Tasks :
          StaleScanResumes(t) =>
              /\ cachedDevices' = cachedDevices
              /\ deviceCacheTimestamp' = deviceCacheTimestamp
              /\ (deviceEnumerationPromise # task[t].await =>
                     deviceEnumerationPromise' = deviceEnumerationPromise)]_vars

\* C28: a reading returned by getBatteryLevel(targetProductId) carries the
\* product id asked for or its paired identity (0x007A / 0x007B), whatever
\* devices the re-enumeration finds.
C28_ExactQueryAnswersForTarget ==
    (ev.retT # 0 /\ ev.retOp = "battery" /\ ev.retTarget # 0 /\ ev.retKind = "result") =>
        \/ ev.retPid = ev.retTarget
        \/ {ev.retPid, ev.retTarget} = {122, 123}

\* C29: a scan that hit an error (and so yielded the empty list) does not
\* populate the cache, and no getAllRazerDevices call is served its list from
\* the cache: the next call starts a new scan.
C29_FailedScanNotCached ==
    /\ CachePopulated(Cur) => cachedDevices.scan \notin scanFailed
    /\ \A t \in Tasks :
          task[t].pc = "gard_cached" => task[t].got.scan \notin scanFailed

\* the battery query of task t has been called and has not returned
InFlight(t) ==
    /\ task[t].op \in {"battery", "mouse", "keyboard"}
    /\ task[t].pc \notin {"host", "done"}

\* the largest number of candidates a bus gives a query of kind op
MaxCandidates(op) ==
    LET n(bus) == Len(Candidates(op, [scan |-> 1,
                                      devs |-> performDeviceEnumeration(bus, FALSE)]))
    IN CHOOSE m \in 0..5 : /\ \A bus \in BusUniverse : n(bus) <= m
                           /\ \E bus \in BusUniverse : n(bus) = m

\* C30: every call of getBatteryLevel, getMouseBatteryLevel and
\* getKeyboardBatteryLevel returns, for every device list and every pattern of
\* transport failures, when each scan and USB operation completes; its loops
\* are bounded: a call makes at most four queries per candidate (two passes
\* over the candidates, each queried at most twice) and at most two
\* invalidations per candidate and one more.
C30_EveryQueryTerminates ==
    /\ \A t \in Tasks : InFlight(t) ~> ~InFlight(t)
    /\ [](\A t \in Tasks :
             InFlight(t) => /\ task[t].nQ <= 4 * MaxCandidates(task[t].op)
                            /\ task[t].nInv <= 2 * MaxCandidates(task[t].op) + 1)

\* getMouseBatteryLevel has returned null after its longest run: two passes
\* over two candidates, each candidate queried twice
C30_Witness ==
    /\ ev.retT = 1
    /\ ev.retOp = "mouse"
    /\ ev.retKind = "null"
    /\ ev.retNQ = 4 * MaxCandidates("mouse")
    /\ ev.retNInv = 2 * MaxCandidates("mouse") + 1
    /\ ~InFlight(1)

\* request n has been sent and is settled
Settled(n) == Len(ipc.requests) >= n /\ ipc.requests[n].state # "pending"

\* C31: every request of sendMessage is eventually settled, and once: by its
\* response, its timeout, a worker exit or shutdown, whichever comes first.  A
\* settled request has no entry in pendingMessages and no armed timer, it
\* stays as it was settled, and a message whose id has no pending request
\* (a response after the timeout) changes no request and no entry.
C31_EveryRequestSettledOnce ==
    /\ \A n \in 1..MaxLifeRequests : (Len(ipc.requests) >= n) ~> Settled(n)
    /\ [](\A n \in 1..Len(ipc.requests) :
             LET entry == \E k \in DOMAIN ipc.pendingMessages : ipc.pendingMessages[k] = n
             IN IF ipc.requests[n].state = "pending"
                THEN entry /\ ipc.requests[n].timer = "armed"
                ELSE ~entry /\ ipc.requests[n].timer # "armed")
    /\ [][\A n \in 1..Len(ipc.requests) :
             ipc.requests[n].state # "pending" => ipc'.requests[n] = ipc.requests[n]]_vars
    /\ [][(ipc'.last.kind = "message" /\ ipc'.last.id \notin DOMAIN ipc.pendingMessages)
             => (ipc'.requests = ipc.requests
                 /\ ipc'.pendingMessages = ipc.pendingMessages)]_vars

\* the first request timed out; its response arrives afterwards, while the
\* second request is pending, and is ignored
C31_Witness ==
    /\ Len(ipc.requests) = 2
    /\ ipc.requests[1].state = "timeout" /\ ipc.requests[1].timer = "fired"
    /\ ipc.last = [kind |-> "message", id |-> 1]
    /\ ipc.requests[2].state = "pending"
    /\ DOMAIN ipc.pendingMessages = {2}

\* C32: when the worker the service refers to exits or errors, every
\* request pending at that moment is rejected, pendingMessages becomes empty
\* and the worker reference becomes null; a sendMessage that finds no worker
\* forks a new one; the worker referred to is a running one with the
\* service's listeners attached.
C32_WorkerExitRejectsPending ==
    /\ [][(ipc'.last.kind \in {"exit", "error"} /\ ipc'.last # ipc.last
           /\ ipc'.last.id = ipc.worker)
             => /\ \A n \in 1..Len(ipc.requests) :
                      ipc.requests[n].state = "pending"
                         => ipc'.requests[n].state = "exit"
                /\ ipc'.pendingMessages = << >>
                /\ ipc'.worker = 0]_vars
    /\ [][(ipc'.messageId # ipc.messageId /\ ipc.worker = 0)
             => /\ ipc'.worker = Len(ipc.workers) + 1
                /\ ipc'.workers[ipc'.worker] = ForkedWorker]_vars
    /\ [](ipc.worker # 0 => /\ ipc.worker \in DOMAIN ipc.workers
                            /\ ipc.workers[ipc.worker].alive
                            /\ ipc.workers[ipc.worker].listeners)

\* the first worker exited with a request pending, which was rejected; the
\* next sendMessage has forked a second worker
C32_Witness ==
    /\ ipc.last = [kind |-> "send", id |-> 2]
    /\ ipc.worker = 2
    /\ ~ipc.workers[1].alive /\ ipc.workers[1].signal = "none"
    /\ ipc.requests[1].state = "exit"
    /\ ipc.requests[2].state = "pending"

\* C33: once the five-second timer of a shutdown has fired, the worker that
\* shutdown terminated has exited or has been sent SIGKILL.
C33_ForceKillReachesOldWorker ==
    \A k \in DOMAIN ipc.forceKill :
        (ipc.forceKill[k].fired /\ ipc.workers[ipc.forceKill[k].worker].alive)
            => ipc.workers[ipc.forceKill[k].worker].signal = "SIGKILL"

\* C34: the exit or error event of a worker other than the one the service
\* refers to, and the force-kill timer of a shutdown, leave the pending
\* requests, the current worker and the worker reference as they are.
C34_OldWorkerEventsLeaveNewWorker ==
    [][(/\ ipc'.last # ipc.last
        /\ ipc.worker # 0
        /\ \/ ipc'.last.kind \in {"exit", "error"} /\ ipc'.last.id # ipc.worker
           \/ ipc'.last.kind = "forceKill")
          => /\ ipc'.requests = ipc.requests
             /\ ipc'.pendingMessages = ipc.pendingMessages
             /\ ipc'.worker = ipc.worker
             /\ ipc'.workers[ipc.worker] = ipc.workers[ipc.worker]]_vars

\* C35: a getBatteryInfo call whose first battery query is answered with null
\* refreshes and retries, on every call: no call returns that null without
\* having retried, and retryAttempted is false whenever no call is in progress.
C35_RetryOnEveryCall ==
    /\ []((\A c \in 1..MaxBatCalls : bat.call[c].pc \in {"none", "done"})
             => ~bat.retryAttempted)
    /\ [][\A c \in 1..MaxBatCalls :
             (bat.call[c].pc = "battery" /\ bat'.call[c].pc = "done"
              /\ bat'.call[c].via = "worker" /\ bat'.call[c].result.kind = "null")
                => FALSE]_vars

\* C36: a reading returned from the battery cache was stored for the product
\* id asked for and is younger than BATTERY_CACHE_DURATION; a reading returned
\* after invalidateDeviceCache() comes from a worker query sent after it.
C36_NoReadingFromBeforeInvalidation ==
    [][\A c \in 1..MaxBatCalls :
          (bat.call[c].pc # "done" /\ bat'.call[c].pc = "done"
           /\ bat'.call[c].result.kind = "result")
             => /\ bat'.call[c].result.epoch = bat'.invalidations
                /\ bat'.call[c].via = "cache"
                      => /\ bat'.call[c].result.productId = bat'.call[c].target
                         /\ clock - bat'.call[c].result.timestamp
                               < BATTERY_CACHE_DURATION]_vars

\* C37: unless the cache was invalidated since, a 'list' request is sent only
\* when none is in flight and at least DEVICE_CACHE_RETRY_INTERVAL after the
\* last failure of a 'list' request; a caller that arrives sooner after the
\* failure gets the empty list.
C37_ListBackoffAndSharing ==
    [][Len(lst'.enumerations) > Len(lst.enumerations)
          => /\ \A p \in DOMAIN lst.enumerations :
                   lst.enumerations[p].state = "pending" => lst.enumerations[p].dropped
             /\ \/ lst.failedAt = 0
                \/ clock - lst.failedAt >= DEVICE_CACHE_RETRY_INTERVAL]_vars

\* C38: a direct worker is spawned only when no direct attempt has failed
\* during the last USB_RETRY_INTERVAL; a request made sooner goes to the
\* privileged service only.
C38_NoDirectAttemptAfterFailure ==
    [][\A c \in 1..MaxUsbCalls :
          (usb.call[c].pc = "none" /\ usb'.call[c].pc = "direct")
             => \/ usb.failedAt = 0
                \/ clock - usb.failedAt >= USB_RETRY_INTERVAL]_vars

\* C39: after onWillDisappear no interval timer of the action is scheduled,
\* and none is scheduled later for a button that is not shown.
C39_NoIntervalAfterDisappear ==
    /\ [][act'.visible # act.visible /\ act'.visible \subseteq act.visible
             => DOMAIN act'.intervals = {}]_vars
    /\ [](\A h \in DOMAIN act.intervals : act.intervals[h] \in act.visible)

\* a level in tenths of a percent within [0, 100], or null with charging
WellFormed(level, charging) ==
    \/ level \in 0..1000
    \/ level = -1 /\ charging

\* C40: every result the worker returns is well formed: its batteryLevel lies
\* in [0, 100] or is null, null only when isCharging is true, and its product
\* id (hence its catalogue name) is that of the device queried.
C40_ResultsWellFormed ==
    /\ [](codec.out.kind = "result"
             => /\ WellFormed(codec.out.batteryLevel, codec.out.isCharging)
                /\ codec.out.productId = codec.productId)
    /\ [][\A t \in Tasks :
             (ev' # ev /\ ev'.retT = t /\ ev'.retKind = "result"
                 /\ task[t].qdev # NoDev)
                => /\ WellFormed(ev'.retLevel, ev'.retCharging)
                   /\ ev'.retPid = task[t].qdev.productId]_vars

====
